---- MODULE Spec2Model ----
(***************************************************************************)
(* A model of the SYNESTHESIA analyzer: the .synth container codec         *)
(* (analyzer/synth_format.py), song structure detection                    *)
(* (analyzer/structure_detector.py), emotion mapping                       *)
(* (analyzer/emotion_mapper.py), the batch command (analyzer/cli.py), the  *)
(* beat grid (analyzer/beat_tracker.py), the classification of one segment *)
(* and the downbeats of the beat extraction paths.                         *)
(*                                                                         *)
(* The specifications share the module, one per component:                 *)
(*   SpecCodec      SynthFile.save / SynthFile.load on a byte-level file   *)
(*   SpecStructure  StructureDetector.detect                               *)
(*   SpecEmotion    EmotionMapper.map                                      *)
(*   SpecBatch      the batch command                                      *)
(*   SpecGrid       BeatTracker.refine_to_grid                             *)
(*   SpecSegment    StructureDetector._classify_segment                    *)
(*   SpecBeat       the beat list and downbeats of the four extraction     *)
(*                  paths                                                  *)
(* SpecStructureLive is SpecStructure with the fairness of a running       *)
(* program.                                                                *)
(* Each one holds the variables of the other components fixed.             *)
(***************************************************************************)
EXTENDS Integers, Sequences, FiniteSets, TLC

VARIABLES
    \* ---- codec (synth_format.py) ----
    synth,      \* the SynthFile object save() is called on
    round,      \* 0: save() of the drawn object, 1: save() of the loaded one
    disk,       \* the destination path: [exists, bytes]
    savePc,     \* position of save()/_write()
    tamper,     \* how the environment changed the file before load() (ghost)
    loadPc,     \* position of load()/_read()
    input,      \* ghost: the bytes load() was given
    pos,        \* read offset of the file object in _read
    flagsRead,  \* the flags word _read unpacked
    result,     \* the SynthFile _read is building
    loadErr,    \* the exception _read raised ("" when none)
    overrun,    \* ghost: a block's length prefix exceeded the bytes left
    readLog,    \* ghost: the blocks _read attempted, in order
    baseline    \* ghost: what load() returned before bytes were appended

VARIABLES
    track,          \* the arguments of StructureDetector.detect
    sdPc,           \* position of detect
    scanI,          \* i of the boundary scan loop
    boundaries,     \* the boundaries list, times in ticks
    segI,           \* i of the loop of _classify_segments (1-based)
    section_counts, \* section_counts of _classify_segments
    sections,       \* the sections list
    climaxes,       \* the climaxes list
    sdErr           \* the exception detect raised ("" when none)

VARIABLES
    song,           \* the arguments of EmotionMapper.map
    emPc,           \* position of map
    points,         \* the points list
    arc             \* the EmotionArc returned

VARIABLES
    audio_files,    \* batch: the sorted list of discovered files
    batchPc,        \* position of batch
    fileI,          \* i of the loop over audio_files (1-based)
    success,        \* batch: success
    failed,         \* batch: failed
    echoed          \* the lines click.echo has written

VARIABLES
    gridArgs,       \* the arguments of BeatTracker.refine_to_grid
    gridPc,         \* position of refine_to_grid
    gridT,          \* t of the grid loop
    grid_beats,     \* the grid_beats list
    gridErr         \* the exception refine_to_grid raised ("" when none)

VARIABLES
    segArgs,        \* the arguments of _classify_segment
    segPc,          \* position of _classify_segment
    segType,        \* the SectionType returned
    segErr          \* the exception _classify_segment raised ("" when none)

VARIABLES
    beatArgs,       \* the extraction path and the beat times it found
    beatPc,         \* position of the extraction
    beatInfo        \* the downbeats and time signature returned

structureVars == <<track, sdPc, scanI, boundaries, segI, section_counts,
                   sections, climaxes, sdErr>>
batchVars == <<audio_files, batchPc, fileI, success, failed, echoed>>
gridVars == <<gridArgs, gridPc, gridT, grid_beats, gridErr>>
segmentVars == <<segArgs, segPc, segType, segErr>>
beatVars == <<beatArgs, beatPc, beatInfo>>
emotionVars == <<song, emPc, points, arc>>

codecVars == <<synth, round, disk, savePc, tamper, loadPc, input, pos,
               flagsRead, result, loadErr, overrun, readLog, baseline>>

vars == <<codecVars, structureVars, emotionVars, batchVars, gridVars,
          segmentVars, beatVars>>

(***************************************************************************)
(* Python values, as far as the codec handles them.  A str is the tuple of *)
(* its UTF-8 bytes; a float is its IEEE-754 bit pattern (the model draws   *)
(* patterns below 2^16, the upper six bytes being 0).                      *)
(***************************************************************************)
None == <<"nil">>
PyInt(n) == <<"int", n>>
PyFloat(bits) == <<"float", bits>>
PyStr(s) == <<"str", s>>
PyList(xs) == <<"list", xs>>
PyTuple(xs) == <<"tuple", xs>>
PyDict(kvs) == <<"map", kvs>>
\* an object msgpack has no encoding for (a set, a Path, numpy.float32, ...)
PyObject == <<"obj">>

Tag(v) == v[1]
Payload(v) == v[2]

RECURSIVE Flatten(_)
Flatten(seqs) ==
    IF seqs = <<>> THEN <<>> ELSE Head(seqs) \o Flatten(Tail(seqs))

Min(a, b) == IF a < b THEN a ELSE b
Max(a, b) == IF a > b THEN a ELSE b

(***************************************************************************)
(* struct.pack('<I', n) / struct.unpack('<I', b): 32-bit little-endian.    *)
(***************************************************************************)
PackU32LE(n) ==
    << n % 256, (n \div 256) % 256, (n \div 65536) % 256,
       (n \div 16777216) % 256 >>

UnpackU32LE(b) ==
    b[1] + 256 * b[2] + 65536 * b[3] + 16777216 * b[4]

(***************************************************************************)
(* msgpack.packb(v, use_bin_type=True): the subset of the format the       *)
(* values above need (nil, positive fixint, uint8, uint16, float64,        *)
(* fixstr, str8, fixarray, array16, fixmap, map16).  Tuples are packed as  *)
(* arrays.                                                                 *)
(***************************************************************************)
RECURSIVE Serializable(_)
Serializable(v) ==
    CASE Tag(v) = "nil" -> TRUE
      [] Tag(v) = "int" -> Payload(v) >= 0 /\ Payload(v) < 65536
      [] Tag(v) = "float" -> TRUE
      [] Tag(v) = "str" -> Len(Payload(v)) < 256
      [] Tag(v) \in {"list", "tuple"} ->
            \A i \in 1..Len(Payload(v)) : Serializable(Payload(v)[i])
      [] Tag(v) = "map" ->
            \A i \in 1..Len(Payload(v)) :
                /\ Serializable(Payload(v)[i][1])
                /\ Serializable(Payload(v)[i][2])
      [] OTHER -> FALSE

PackLenHeader(fixBase, fixLimit, wideTag, n) ==
    IF n < fixLimit THEN <<fixBase + n>>
    ELSE <<wideTag, n \div 256, n % 256>>

RECURSIVE Packb(_)
Packb(v) ==
    CASE Tag(v) = "nil" -> <<192>>
      [] Tag(v) = "int" ->
            IF Payload(v) < 128 THEN <<Payload(v)>>
            ELSE IF Payload(v) < 256 THEN <<204, Payload(v)>>
            ELSE <<205, Payload(v) \div 256, Payload(v) % 256>>
      [] Tag(v) = "float" ->
            <<203, 0, 0, 0, 0, 0, 0, Payload(v) \div 256, Payload(v) % 256>>
      [] Tag(v) = "str" ->
            (IF Len(Payload(v)) < 32 THEN <<160 + Len(Payload(v))>>
             ELSE <<217, Len(Payload(v))>>) \o Payload(v)
      [] Tag(v) \in {"list", "tuple"} ->
            PackLenHeader(144, 16, 220, Len(Payload(v)))
            \o Flatten([i \in 1..Len(Payload(v)) |-> Packb(Payload(v)[i])])
      [] Tag(v) = "map" ->
            PackLenHeader(128, 16, 222, Len(Payload(v)))
            \o Flatten([i \in 1..Len(Payload(v)) |->
                          Packb(Payload(v)[i][1]) \o Packb(Payload(v)[i][2])])

(***************************************************************************)
(* msgpack.unpackb(b, raw=False): parses one object from the whole buffer. *)
(* UnpackAt returns [ok, val, next]; running out of bytes, or a format     *)
(* byte outside the subset, makes ok FALSE.  Arrays come back as lists.    *)
(***************************************************************************)
UnpackFail == [ok |-> FALSE, val |-> None, next |-> 0]

RECURSIVE UnpackAt(_, _)
RECURSIVE UnpackItems(_, _, _, _)

\* n consecutive objects from offset p (1-based), appended to acc
UnpackItems(b, p, n, acc) ==
    IF n = 0 THEN [ok |-> TRUE, val |-> acc, next |-> p]
    ELSE LET r == UnpackAt(b, p) IN
         IF ~r.ok THEN UnpackFail
         ELSE UnpackItems(b, r.next, n - 1, Append(acc, r.val))

Pairs(items) ==
    [i \in 1..(Len(items) \div 2) |-> <<items[2 * i - 1], items[2 * i]>>]

UnpackArray(b, p, n) ==
    LET r == UnpackItems(b, p, n, <<>>) IN
    IF r.ok THEN [r EXCEPT !.val = PyList(r.val)] ELSE UnpackFail

\* strict_map_key: a map key must be a str
UnpackMap(b, p, n) ==
    LET r == UnpackItems(b, p, 2 * n, <<>>) IN
    IF r.ok /\ \A i \in 1..n : Tag(r.val[2 * i - 1]) = "str"
    THEN [r EXCEPT !.val = PyDict(Pairs(r.val))]
    ELSE UnpackFail

UnpackStr(b, p, n) ==
    IF p + n - 1 > Len(b) THEN UnpackFail
    ELSE [ok |-> TRUE, val |-> PyStr(SubSeq(b, p, p + n - 1)), next |-> p + n]

UnpackAt(b, p) ==
    IF p > Len(b) THEN UnpackFail
    ELSE LET h == b[p] IN
      CASE h < 128 -> [ok |-> TRUE, val |-> PyInt(h), next |-> p + 1]
        [] h >= 128 /\ h < 144 -> UnpackMap(b, p + 1, h - 128)
        [] h >= 144 /\ h < 160 -> UnpackArray(b, p + 1, h - 144)
        [] h >= 160 /\ h < 192 -> UnpackStr(b, p + 1, h - 160)
        [] h = 192 -> [ok |-> TRUE, val |-> None, next |-> p + 1]
        [] h = 203 ->
              IF p + 8 > Len(b) THEN UnpackFail
              ELSE [ok |-> TRUE,
                    val |-> PyFloat(256 * b[p + 7] + b[p + 8]),
                    next |-> p + 9]
        [] h = 204 ->
              IF p + 1 > Len(b) THEN UnpackFail
              ELSE [ok |-> TRUE, val |-> PyInt(b[p + 1]), next |-> p + 2]
        [] h = 205 ->
              IF p + 2 > Len(b) THEN UnpackFail
              ELSE [ok |-> TRUE, val |-> PyInt(256 * b[p + 1] + b[p + 2]),
                    next |-> p + 3]
        [] h = 217 ->
              IF p + 1 > Len(b) THEN UnpackFail
              ELSE UnpackStr(b, p + 2, b[p + 1])
        [] h = 220 ->
              IF p + 2 > Len(b) THEN UnpackFail
              ELSE UnpackArray(b, p + 3, 256 * b[p + 1] + b[p + 2])
        [] h = 222 ->
              IF p + 2 > Len(b) THEN UnpackFail
              ELSE UnpackMap(b, p + 3, 256 * b[p + 1] + b[p + 2])
        [] OTHER -> UnpackFail

\* unpackb: one object, and nothing after it (ExtraData otherwise)
Unpackb(b) ==
    LET r == UnpackAt(b, 1) IN
    IF r.ok /\ r.next = Len(b) + 1 THEN [ok |-> TRUE, val |-> r.val]
    ELSE [ok |-> FALSE, val |-> None]

(***************************************************************************)
(* The dataclasses of synth_format.py.  An instance is a record; the       *)
(* ...Fields sequence gives the declared field order and the ...Keys       *)
(* sequence the UTF-8 bytes of each field's name, which is the key the     *)
(* field is written under.                                                 *)
(***************************************************************************)
AnalysisFields ==
    <<"duration", "sample_rate", "audio_hash", "key", "mode",
      "key_confidence", "tempo", "tempo_confidence", "beats", "downbeats",
      "time_signature", "chords", "sections", "climaxes", "energy_curve",
      "tension_curve", "loudness_curve", "emotion_arc", "spectral_centroid",
      "spectral_flux">>

\* the keys of the dict _serialize_analysis returns, in its order
AnalysisKeys ==
    <<
      <<100, 117, 114, 97, 116, 105, 111, 110>>,   \* 'duration'
      <<115, 97, 109, 112, 108, 101, 95, 114, 97, 116, 101>>,   \* 'sample_rate'
      <<97, 117, 100, 105, 111, 95, 104, 97, 115, 104>>,   \* 'audio_hash'
      <<107, 101, 121>>,   \* 'key'
      <<109, 111, 100, 101>>,   \* 'mode'
      <<107, 101, 121, 95, 99, 111, 110, 102, 105, 100, 101, 110, 99, 101>>,   \* 'key_confidence'
      <<116, 101, 109, 112, 111>>,   \* 'tempo'
      <<116, 101, 109, 112, 111, 95, 99, 111, 110, 102, 105, 100, 101, 110, 99, 101>>,   \* 'tempo_confidence'
      <<98, 101, 97, 116, 115>>,   \* 'beats'
      <<100, 111, 119, 110, 98, 101, 97, 116, 115>>,   \* 'downbeats'
      <<116, 105, 109, 101, 95, 115, 105, 103, 110, 97, 116, 117, 114, 101>>,   \* 'time_signature'
      <<99, 104, 111, 114, 100, 115>>,   \* 'chords'
      <<115, 101, 99, 116, 105, 111, 110, 115>>,   \* 'sections'
      <<99, 108, 105, 109, 97, 120, 101, 115>>,   \* 'climaxes'
      <<101, 110, 101, 114, 103, 121, 95, 99, 117, 114, 118, 101>>,   \* 'energy_curve'
      <<116, 101, 110, 115, 105, 111, 110, 95, 99, 117, 114, 118, 101>>,   \* 'tension_curve'
      <<108, 111, 117, 100, 110, 101, 115, 115, 95, 99, 117, 114, 118, 101>>,   \* 'loudness_curve'
      <<101, 109, 111, 116, 105, 111, 110, 95, 97, 114, 99>>,   \* 'emotion_arc'
      <<115, 112, 101, 99, 116, 114, 97, 108, 95, 99, 101, 110, 116, 114, 111, 105, 100>>,   \* 'spectral_centroid'
      <<115, 112, 101, 99, 116, 114, 97, 108, 95, 102, 108, 117, 120>>   \* 'spectral_flux'
    >>

VideoSegmentFields ==
    <<"segment_id", "start_time", "end_time", "video_path", "mood",
      "clarity_level", "base_hue", "saturation", "brightness",
      "motion_speed">>

\* asdict(VideoSegment) keys
VideoSegmentKeys ==
    <<
      <<115, 101, 103, 109, 101, 110, 116, 95, 105, 100>>,   \* 'segment_id'
      <<115, 116, 97, 114, 116, 95, 116, 105, 109, 101>>,   \* 'start_time'
      <<101, 110, 100, 95, 116, 105, 109, 101>>,   \* 'end_time'
      <<118, 105, 100, 101, 111, 95, 112, 97, 116, 104>>,   \* 'video_path'
      <<109, 111, 111, 100>>,   \* 'mood'
      <<99, 108, 97, 114, 105, 116, 121, 95, 108, 101, 118, 101, 108>>,   \* 'clarity_level'
      <<98, 97, 115, 101, 95, 104, 117, 101>>,   \* 'base_hue'
      <<115, 97, 116, 117, 114, 97, 116, 105, 111, 110>>,   \* 'saturation'
      <<98, 114, 105, 103, 104, 116, 110, 101, 115, 115>>,   \* 'brightness'
      <<109, 111, 116, 105, 111, 110, 95, 115, 112, 101, 101, 100>>   \* 'motion_speed'
    >>

TransitionPointFields ==
    <<"time", "from_segment", "to_segment", "transition_type", "duration">>

\* asdict(TransitionPoint) keys
TransitionPointKeys ==
    <<
      <<116, 105, 109, 101>>,   \* 'time'
      <<102, 114, 111, 109, 95, 115, 101, 103, 109, 101, 110, 116>>,   \* 'from_segment'
      <<116, 111, 95, 115, 101, 103, 109, 101, 110, 116>>,   \* 'to_segment'
      <<116, 114, 97, 110, 115, 105, 116, 105, 111, 110, 95, 116, 121, 112, 101>>,   \* 'transition_type'
      <<100, 117, 114, 97, 116, 105, 111, 110>>   \* 'duration'
    >>

ShaderCurvesFields ==
    <<"times", "bloom_intensity", "chromatic_amount", "vignette_strength",
      "grain_amount", "color_shift">>

\* asdict(ShaderCurves) keys
ShaderCurvesKeys ==
    <<
      <<116, 105, 109, 101, 115>>,   \* 'times'
      <<98, 108, 111, 111, 109, 95, 105, 110, 116, 101, 110, 115, 105, 116, 121>>,   \* 'bloom_intensity'
      <<99, 104, 114, 111, 109, 97, 116, 105, 99, 95, 97, 109, 111, 117, 110, 116>>,   \* 'chromatic_amount'
      <<118, 105, 103, 110, 101, 116, 116, 101, 95, 115, 116, 114, 101, 110, 103, 116, 104>>,   \* 'vignette_strength'
      <<103, 114, 97, 105, 110, 95, 97, 109, 111, 117, 110, 116>>,   \* 'grain_amount'
      <<99, 111, 108, 111, 114, 95, 115, 104, 105, 102, 116>>   \* 'color_shift'
    >>

\* the keys of style_data: 'name', 'params'
StyleKeys == << <<110, 97, 109, 101>>, <<112, 97, 114, 97, 109, 115>> >>

\* the default of style_name: 'default'
DefaultStyleName == PyStr(<<100, 101, 102, 97, 117, 108, 116>>)

\* MAGIC = b'SYNTH\x00\x01\x00'
MAGIC == <<83, 89, 78, 84, 72, 0, 1, 0>>

SeqToSet(s) == {s[i] : i \in 1..Len(s)}

\* dataclasses.asdict(obj): a dict of the fields in declared order
AsDict(obj, fields, keys) ==
    PyDict([i \in 1..Len(fields) |-> <<PyStr(keys[i]), obj[fields[i]]>>])

\* d[key] / d.get(key) on an unpacked dict: the last entry under the key
HasKey(kvs, key) == \E i \in 1..Len(kvs) : kvs[i][1] = PyStr(key)

Lookup(kvs, key) ==
    LET hits == {i \in 1..Len(kvs) : kvs[i][1] = PyStr(key)} IN
    kvs[CHOOSE i \in hits : \A j \in hits : j <= i][2]

\* Cls(**d) for a dataclass whose fields have no default: d must be a
\* mapping holding exactly the field names (TypeError otherwise)
CanConstruct(d, keys) ==
    /\ Tag(d) = "map"
    /\ \A i \in 1..Len(keys) : HasKey(Payload(d), keys[i])
    /\ \A i \in 1..Len(Payload(d)) :
          \E j \in 1..Len(keys) : Payload(d)[i][1] = PyStr(keys[j])

Construct(d, fields, keys) ==
    [f \in SeqToSet(fields) |->
        Lookup(Payload(d), keys[CHOOSE i \in 1..Len(fields) : fields[i] = f])]

(***************************************************************************)
(* The SynthFile objects save() is called on.  An optional dataclass field *)
(* holds None or <<class name, instance>>.                                 *)
(***************************************************************************)
MusicAnalysisObj(rec) == <<"MusicAnalysis", rec>>
ShaderCurvesObj(rec) == <<"ShaderCurves", rec>>

\* a MusicAnalysis with empty lists and no spectral features
AnalysisPlain ==
    [duration |-> PyFloat(180), sample_rate |-> PyInt(44100),
     audio_hash |-> PyStr(<<104>>), key |-> PyStr(<<67>>), mode |-> PyStr(<<109, 97, 106, 111, 114>>),
     key_confidence |-> PyFloat(9), tempo |-> PyFloat(120),
     tempo_confidence |-> PyFloat(8), beats |-> PyList(<<>>),
     downbeats |-> PyList(<<>>),
     time_signature |-> PyTuple(<<PyInt(4), PyInt(4)>>),
     chords |-> PyList(<<>>), sections |-> PyList(<<>>),
     climaxes |-> PyList(<<>>), energy_curve |-> PyList(<<>>),
     tension_curve |-> PyList(<<>>), loudness_curve |-> PyList(<<>>),
     emotion_arc |-> PyList(<<>>), spectral_centroid |-> None,
     spectral_flux |-> None]

\* a MusicAnalysis as create_synth_file builds it: populated lists, dicts
\* inside lists, one spectral feature present and one absent
AnalysisRich ==
    [AnalysisPlain EXCEPT
       !.duration = PyFloat(300),
       !.sample_rate = PyInt(200),
       !.beats = PyList(<<PyFloat(5), PyFloat(10)>>),
       !.downbeats = PyList(<<PyFloat(5)>>),
       !.time_signature = PyTuple(<<PyInt(3), PyInt(4)>>),
       !.chords = PyList(<< PyDict(<< <<PyStr(<<116, 105, 109, 101>>), PyFloat(0)>>,
                                      <<PyStr(<<99, 104, 111, 114, 100>>), PyStr(<<65, 109>>)>> >>) >>),
       !.energy_curve = PyList(<<PyFloat(5), PyFloat(3)>>),
       !.spectral_centroid = PyList(<<PyFloat(700)>>)]

VideoSegmentSample ==
    [segment_id |-> PyInt(0), start_time |-> PyFloat(0),
     end_time |-> PyFloat(30), video_path |-> PyStr(<<97, 46, 109, 112, 52>>),
     mood |-> PyStr(<<99, 97, 108, 109>>), clarity_level |-> PyFloat(5),
     base_hue |-> PyFloat(2), saturation |-> PyFloat(7),
     brightness |-> PyFloat(6), motion_speed |-> PyFloat(1)]

TransitionPointSample ==
    [time |-> PyFloat(30), from_segment |-> PyInt(0), to_segment |-> PyInt(1),
     transition_type |-> PyStr(<<99, 117, 116>>), duration |-> PyFloat(1)]

ShaderCurvesSample ==
    [times |-> PyList(<<PyFloat(0), PyFloat(1)>>),
     bloom_intensity |-> PyList(<<PyFloat(2), PyFloat(3)>>),
     chromatic_amount |-> PyList(<<PyFloat(0), PyFloat(0)>>),
     vignette_strength |-> PyList(<<PyFloat(3), PyFloat(3)>>),
     grain_amount |-> PyList(<<PyFloat(1), PyFloat(0)>>),
     color_shift |-> PyList(<<PyFloat(0), PyFloat(0)>>)]

\* (style_name, style_params): the defaults, a serializable parameter, and
\* a parameter msgpack cannot serialize
Styles ==
    { <<DefaultStyleName, PyDict(<<>>)>>,
      <<PyStr(<<110, 101, 111, 110>>), PyDict(<< <<PyStr(<<103, 108, 111, 119>>), PyFloat(4)>> >>)>>,
      <<PyStr(<<110, 101, 111, 110>>), PyDict(<< <<PyStr(<<103, 108, 111, 119>>), PyObject>> >>)>> }

\* FORMAT_VERSION = (1, 0)
FORMAT_VERSION == PyTuple(<<PyInt(1), PyInt(0)>>)

\* SynthFile(): the dataclass defaults
DefaultSynthFile ==
    [version |-> FORMAT_VERSION, created_at |-> PyStr(<<>>),
     analysis |-> None, video_segments |-> <<>>,
     transitions |-> <<>>, shader_curves |-> None,
     style_name |-> DefaultStyleName, style_params |-> PyDict(<<>>)]

\* the objects save() is called on: a populated analysis with every
\* combination of optional parts and styles, a plain analysis with the
\* defaults, and SynthFile() itself (no analysis)
SynthFiles ==
    { [version |-> FORMAT_VERSION, created_at |-> PyStr(<<50, 48, 50, 52>>),
       analysis |-> MusicAnalysisObj(AnalysisRich),
       video_segments |-> v, transitions |-> t, shader_curves |-> sh,
       style_name |-> st[1], style_params |-> st[2]] :
        v \in {<<>>, <<VideoSegmentSample>>},
        t \in {<<>>, <<TransitionPointSample>>},
        sh \in {None, ShaderCurvesObj(ShaderCurvesSample)}, st \in Styles }
    \cup {[DefaultSynthFile EXCEPT
             !.analysis = MusicAnalysisObj(AnalysisPlain)],
          DefaultSynthFile}

\* what the destination path holds before save(): an older file
PrevDisk == [exists |-> TRUE, bytes |-> <<79, 76, 68>>]

(***************************************************************************)
(* SynthFile.save and SynthFile._write                                     *)
(***************************************************************************)
\* bool(self.video_segments), bool(self.shader_curves)
HasVideo(sf) == sf.video_segments # <<>>
HasShader(sf) == sf.shader_curves # None

\* a faulty flags word: the two bits exchanged
Flags_Swapped(sf) ==
    (IF HasVideo(sf) THEN 2 ELSE 0) + (IF HasShader(sf) THEN 1 ELSE 0)

\* the flags word of _write
Flags(sf) ==
    (IF HasVideo(sf) THEN 1 ELSE 0) + (IF HasShader(sf) THEN 2 ELSE 0)

\* _serialize_analysis: {} without an analysis, else the 20 keys in order,
\* time_signature converted with list()
SerializeAnalysis(sf) ==
    IF sf.analysis = None THEN PyDict(<<>>)
    ELSE LET a == Payload(sf.analysis) IN
         PyDict([i \in 1..Len(AnalysisFields) |->
                   << PyStr(AnalysisKeys[i]),
                      IF AnalysisFields[i] = "time_signature"
                      THEN PyList(Payload(a.time_signature))
                      ELSE a[AnalysisFields[i]] >>])

\* [asdict(seg) for seg in self.video_segments]
VideoData(sf) ==
    PyList([i \in 1..Len(sf.video_segments) |->
              AsDict(sf.video_segments[i], VideoSegmentFields,
                     VideoSegmentKeys)])

\* [asdict(t) for t in self.transitions]
TransData(sf) ==
    PyList([i \in 1..Len(sf.transitions) |->
              AsDict(sf.transitions[i], TransitionPointFields,
                     TransitionPointKeys)])

\* asdict(self.shader_curves)
ShaderData(sf) ==
    AsDict(Payload(sf.shader_curves), ShaderCurvesFields, ShaderCurvesKeys)

\* {'name': self.style_name, 'params': self.style_params}
StyleData(sf) ==
    PyDict(<< <<PyStr(StyleKeys[1]), sf.style_name>>,
              <<PyStr(StyleKeys[2]), sf.style_params>> >>)

\* f.write(struct.pack('<I', len(payload))); f.write(payload)
Block(payload) == PackU32LE(Len(payload)) \o payload

saveVars == <<disk, savePc>>
loadVars == <<tamper, loadPc, input, pos, flagsRead, result, loadErr,
              overrun, readLog>>

\* open(path, 'wb'): the destination is created or truncated at once
SaveOpen ==
    /\ savePc = "idle"
    /\ disk' = [exists |-> TRUE, bytes |-> <<>>]
    /\ savePc' = "magic"
    /\ UNCHANGED <<synth, round, baseline, loadVars, structureVars,
                   emotionVars, batchVars, gridVars, segmentVars, beatVars>>

WriteMagic ==
    /\ savePc = "magic"
    /\ disk' = [disk EXCEPT !.bytes = @ \o MAGIC]
    /\ savePc' = "flags"
    /\ UNCHANGED <<synth, round, baseline, loadVars, structureVars,
                   emotionVars, batchVars, gridVars, segmentVars, beatVars>>

WriteFlags ==
    /\ savePc = "flags"
    /\ disk' = [disk EXCEPT !.bytes = @ \o PackU32LE(Flags(synth))]
    /\ savePc' = "analysis"
    /\ UNCHANGED <<synth, round, baseline, loadVars, structureVars,
                   emotionVars, batchVars, gridVars, segmentVars, beatVars>>

\* packb raises on a value it cannot serialize; the with block then closes
\* the file with what was written so far
WriteAnalysis ==
    /\ savePc = "analysis"
    /\ IF Serializable(SerializeAnalysis(synth))
       THEN /\ disk' = [disk EXCEPT
                          !.bytes = @ \o Block(Packb(SerializeAnalysis(synth)))]
            /\ savePc' = "video"
       ELSE /\ disk' = disk
            /\ savePc' = "failed"
    /\ UNCHANGED <<synth, round, baseline, loadVars, structureVars,
                   emotionVars, batchVars, gridVars, segmentVars, beatVars>>

\* if self.video_segments: the video block, then the transitions block
WriteVideo ==
    /\ savePc = "video"
    /\ IF ~HasVideo(synth)
       THEN /\ disk' = disk
            /\ savePc' = "shader"
       ELSE IF ~Serializable(VideoData(synth))
       THEN /\ disk' = disk
            /\ savePc' = "failed"
       ELSE IF ~Serializable(TransData(synth))
       THEN /\ disk' = [disk EXCEPT
                          !.bytes = @ \o Block(Packb(VideoData(synth)))]
            /\ savePc' = "failed"
       ELSE /\ disk' = [disk EXCEPT
                          !.bytes = @ \o Block(Packb(VideoData(synth)))
                                      \o Block(Packb(TransData(synth)))]
            /\ savePc' = "shader"
    /\ UNCHANGED <<synth, round, baseline, loadVars, structureVars,
                   emotionVars, batchVars, gridVars, segmentVars, beatVars>>

\* if self.shader_curves: the shader block
WriteShader ==
    /\ savePc = "shader"
    /\ IF ~HasShader(synth)
       THEN /\ disk' = disk
            /\ savePc' = "style"
       ELSE IF ~Serializable(ShaderData(synth))
       THEN /\ disk' = disk
            /\ savePc' = "failed"
       ELSE /\ disk' = [disk EXCEPT
                          !.bytes = @ \o Block(Packb(ShaderData(synth)))]
            /\ savePc' = "style"
    /\ UNCHANGED <<synth, round, baseline, loadVars, structureVars,
                   emotionVars, batchVars, gridVars, segmentVars, beatVars>>

\* the style block, after which _write returns and save() ends
WriteStyle ==
    /\ savePc = "style"
    /\ IF Serializable(StyleData(synth))
       THEN /\ disk' = [disk EXCEPT
                          !.bytes = @ \o Block(Packb(StyleData(synth)))]
            /\ savePc' = "done"
       ELSE /\ disk' = disk
            /\ savePc' = "failed"
    /\ UNCHANGED <<synth, round, baseline, loadVars, structureVars,
                   emotionVars, batchVars, gridVars, segmentVars, beatVars>>

(***************************************************************************)
(* SynthFile.load and SynthFile._read                                      *)
(***************************************************************************)
\* f.read(n) at offset p: the n bytes after p, or fewer at the end of file
FRead(bytes, p, n) == SubSeq(bytes, p + 1, Min(p + n, Len(bytes)))

\* size = struct.unpack('<I', f.read(4))[0]; body = f.read(size);
\* data = msgpack.unpackb(body, raw=False)
ReadBlock(bytes, p) ==
    LET hdr == FRead(bytes, p, 4) IN
    IF Len(hdr) < 4
    THEN [err |-> "struct.error", val |-> None, next |-> p + Len(hdr),
          over |-> FALSE]
    ELSE LET size == UnpackU32LE(hdr)
             body == FRead(bytes, p + 4, size)
             u == Unpackb(body)
         IN [err |-> IF u.ok THEN "" ELSE "unpack error",
             val |-> u.val, next |-> p + 4 + Len(body),
             over |-> size > Len(bytes) - (p + 4)]

\* has_video = bool(flags & 1)
HasVideoFlag(flags) == flags % 2 = 1

\* a faulty test of the shader flag: bit 2 instead of bit 1
HasShaderFlag_Bit2(flags) == (flags \div 4) % 2 = 1

\* has_shader = bool(flags & 2)
HasShaderFlag(flags) == (flags \div 2) % 2 = 1

\* tuple(x): the elements of a list or tuple, the characters of a str, the
\* keys of a dict
Iterable(v) == Tag(v) \in {"list", "tuple", "str", "map"}

Elements(v) ==
    CASE Tag(v) \in {"list", "tuple"} -> Payload(v)
      [] Tag(v) = "str" ->
            [i \in 1..Len(Payload(v)) |-> PyStr(<<Payload(v)[i]>>)]
      [] Tag(v) = "map" -> [i \in 1..Len(Payload(v)) |-> Payload(v)[i][1]]

\* a faulty MusicAnalysis(...) call: time_signature taken as stored, without
\* tuple()
AnalysisFromData_NoTuple(kvs) ==
    [f \in SeqToSet(AnalysisFields) |->
        LET key == AnalysisKeys[CHOOSE i \in 1..Len(AnalysisFields) :
                                    AnalysisFields[i] = f]
        IN IF f \in {"spectral_centroid", "spectral_flux"}
           THEN (IF HasKey(kvs, key) THEN Lookup(kvs, key) ELSE None)
           ELSE Lookup(kvs, key)]

\* a faulty MusicAnalysis(...) call: spectral_flux read from the
\* spectral_centroid key
AnalysisFromData_WrongKey(kvs) ==
    [f \in SeqToSet(AnalysisFields) |->
        LET key == AnalysisKeys[CHOOSE i \in 1..Len(AnalysisFields) :
                      AnalysisFields[i] = IF f = "spectral_flux"
                                          THEN "spectral_centroid" ELSE f]
        IN IF f \in {"spectral_centroid", "spectral_flux"}
           THEN (IF HasKey(kvs, key) THEN Lookup(kvs, key) ELSE None)
           ELSE IF f = "time_signature"
           THEN PyTuple(Elements(Lookup(kvs, key)))
           ELSE Lookup(kvs, key)]

\* the MusicAnalysis(...) call of _read: 18 keys read with [], the two
\* spectral keys with .get()
AnalysisFromData(kvs) ==
    [f \in SeqToSet(AnalysisFields) |->
        LET key == AnalysisKeys[CHOOSE i \in 1..Len(AnalysisFields) :
                                    AnalysisFields[i] = f]
        IN IF f \in {"spectral_centroid", "spectral_flux"}
           THEN (IF HasKey(kvs, key) THEN Lookup(kvs, key) ELSE None)
           ELSE IF f = "time_signature"
           THEN PyTuple(Elements(Lookup(kvs, key)))
           ELSE Lookup(kvs, key)]

\* the exception the MusicAnalysis(...) call raises on analysis_data, "" if none
AnalysisDataError(data) ==
    IF Tag(data) # "map" THEN "TypeError"
    ELSE IF \E i \in 1..Len(AnalysisFields) :
              /\ AnalysisFields[i] \notin {"spectral_centroid", "spectral_flux"}
              /\ ~HasKey(Payload(data), AnalysisKeys[i])
    THEN "KeyError"
    ELSE IF ~Iterable(Lookup(Payload(data),
                             AnalysisKeys[CHOOSE i \in 1..Len(AnalysisFields) :
                                 AnalysisFields[i] = "time_signature"]))
    THEN "TypeError"
    ELSE ""

\* [Cls(**x) for x in data] raises unless data is iterable and every element
\* a mapping with exactly the fields of Cls
CanConstructAll(data, keys) ==
    /\ Iterable(data)
    /\ \A i \in 1..Len(Elements(data)) : CanConstruct(Elements(data)[i], keys)

ConstructAll(data, fields, keys) ==
    [i \in 1..Len(Elements(data)) |->
        Construct(Elements(data)[i], fields, keys)]

\* data appended after the style block: a byte, an empty block, a block
TrailingData == << <<0>>, <<0, 0, 0, 0>>, <<1, 0, 0, 0, 192>> >>

\* no earlier load() of the file
NoBaseline == <<>>

NoTamper == [kind |-> "none", a |-> 0, b |-> 0]

\* the exception leaves _read: nothing is returned
Fail(e, p, over, log, res) ==
    /\ loadPc' = "error"
    /\ loadErr' = e
    /\ pos' = p
    /\ overrun' = (overrun \/ over)
    /\ readLog' = log
    /\ result' = res
    /\ UNCHANGED flagsRead

\* a faulty magic test: only the five letters are compared
BadMagic_LettersOnly(magic) == FRead(magic, 0, 5) # FRead(MAGIC, 0, 5)

\* magic != MAGIC
BadMagic(magic) == magic # MAGIC

\* open(path, 'rb')
LoadOpen ==
    /\ savePc \in {"done", "failed"}
    /\ loadPc = "idle"
    /\ disk.exists
    /\ loadPc' = "magic"
    /\ input' = disk.bytes
    /\ UNCHANGED <<synth, round, baseline, saveVars, tamper, pos, flagsRead,
                   result, loadErr, overrun, readLog, structureVars,
                   emotionVars, batchVars, gridVars, segmentVars, beatVars>>

\* magic = f.read(8); if magic != MAGIC: raise ValueError
ReadMagic ==
    /\ loadPc = "magic"
    /\ LET magic == FRead(disk.bytes, pos, 8) IN
       IF BadMagic(magic)
       THEN Fail("ValueError", pos + Len(magic), FALSE, readLog, result)
       ELSE /\ loadPc' = "flags"
            /\ pos' = pos + 8
            /\ UNCHANGED <<flagsRead, result, loadErr, overrun, readLog>>
    /\ UNCHANGED <<synth, round, baseline, saveVars, tamper, input,
                   structureVars, emotionVars, batchVars, gridVars,
                   segmentVars, beatVars>>

\* flags = struct.unpack('<I', f.read(4))[0]
ReadFlags ==
    /\ loadPc = "flags"
    /\ LET hdr == FRead(disk.bytes, pos, 4) IN
       IF Len(hdr) < 4
       THEN Fail("struct.error", pos + Len(hdr), FALSE,
                 Append(readLog, "flags"), result)
       ELSE /\ loadPc' = "analysis"
            /\ pos' = pos + 4
            /\ flagsRead' = UnpackU32LE(hdr)
            /\ readLog' = Append(readLog, "flags")
            /\ UNCHANGED <<result, loadErr, overrun>>
    /\ UNCHANGED <<synth, round, baseline, saveVars, tamper, input,
                   structureVars, emotionVars, batchVars, gridVars,
                   segmentVars, beatVars>>

\* the analysis block and result = cls(analysis=analysis)
ReadAnalysis ==
    /\ loadPc = "analysis"
    /\ \E blk \in {ReadBlock(disk.bytes, pos)} :
       \E e \in {IF blk.err # "" THEN blk.err
                 ELSE AnalysisDataError(blk.val)} :
          IF e # ""
          THEN Fail(e, blk.next, blk.over, Append(readLog, "analysis"),
                    result)
          ELSE /\ result' = [DefaultSynthFile EXCEPT !.analysis =
                    MusicAnalysisObj(AnalysisFromData(Payload(blk.val)))]
               /\ loadPc' = "video"
               /\ pos' = blk.next
               /\ overrun' = (overrun \/ blk.over)
               /\ readLog' = Append(readLog, "analysis")
               /\ UNCHANGED <<flagsRead, loadErr>>
    /\ UNCHANGED <<synth, round, baseline, saveVars, tamper, input,
                   structureVars, emotionVars, batchVars, gridVars,
                   segmentVars, beatVars>>

\* the transitions block, read after video_segments has been assigned
ReadTransitions(p, vlog, vover, res) ==
    \E trn \in {ReadBlock(disk.bytes, p)} :
       IF trn.err # ""
       THEN Fail(trn.err, trn.next, vover \/ trn.over,
                 Append(vlog, "transitions"), res)
       ELSE IF ~CanConstructAll(trn.val, TransitionPointKeys)
       THEN Fail("TypeError", trn.next, vover \/ trn.over,
                 Append(vlog, "transitions"), res)
       ELSE /\ result' = [res EXCEPT !.transitions = ConstructAll(trn.val,
                             TransitionPointFields, TransitionPointKeys)]
            /\ loadPc' = "shader"
            /\ pos' = trn.next
            /\ overrun' = (overrun \/ vover \/ trn.over)
            /\ readLog' = Append(vlog, "transitions")
            /\ UNCHANGED <<flagsRead, loadErr>>

\* if has_video: the video block, then the transitions block
ReadVideo ==
    /\ loadPc = "video"
    /\ IF ~HasVideoFlag(flagsRead)
       THEN /\ loadPc' = "shader"
            /\ UNCHANGED <<pos, flagsRead, result, loadErr, overrun, readLog>>
       ELSE \E vid \in {ReadBlock(disk.bytes, pos)} :
               IF vid.err # ""
               THEN Fail(vid.err, vid.next, vid.over,
                         Append(readLog, "video"), result)
               ELSE IF ~CanConstructAll(vid.val, VideoSegmentKeys)
               THEN Fail("TypeError", vid.next, vid.over,
                         Append(readLog, "video"), result)
               ELSE ReadTransitions(vid.next, Append(readLog, "video"),
                        vid.over,
                        [result EXCEPT !.video_segments = ConstructAll(
                            vid.val, VideoSegmentFields, VideoSegmentKeys)])
    /\ UNCHANGED <<synth, round, baseline, saveVars, tamper, input,
                   structureVars, emotionVars, batchVars, gridVars,
                   segmentVars, beatVars>>

\* if has_shader: the shader-curves block
ReadShader ==
    /\ loadPc = "shader"
    /\ IF ~HasShaderFlag(flagsRead)
       THEN /\ loadPc' = "style"
            /\ UNCHANGED <<pos, flagsRead, result, loadErr, overrun, readLog>>
       ELSE \E blk \in {ReadBlock(disk.bytes, pos)} :
               IF blk.err # ""
               THEN Fail(blk.err, blk.next, blk.over,
                         Append(readLog, "shader"), result)
               ELSE IF ~CanConstruct(blk.val, ShaderCurvesKeys)
               THEN Fail("TypeError", blk.next, blk.over,
                         Append(readLog, "shader"), result)
               ELSE /\ result' = [result EXCEPT !.shader_curves =
                         ShaderCurvesObj(Construct(blk.val, ShaderCurvesFields,
                                                   ShaderCurvesKeys))]
                    /\ loadPc' = "style"
                    /\ pos' = blk.next
                    /\ overrun' = (overrun \/ blk.over)
                    /\ readLog' = Append(readLog, "shader")
                    /\ UNCHANGED <<flagsRead, loadErr>>
    /\ UNCHANGED <<synth, round, baseline, saveVars, tamper, input,
                   structureVars, emotionVars, batchVars, gridVars,
                   segmentVars, beatVars>>

\* a faulty style read: a style block that cannot be read or is no dict
\* leaves the defaults and the result is returned
ReadStyle_Lenient ==
    /\ loadPc = "style"
    /\ \E blk \in {ReadBlock(disk.bytes, pos)} :
          /\ result' =
                IF blk.err # "" \/ Tag(blk.val) # "map" THEN result
                ELSE [result EXCEPT
                    !.style_name =
                        IF HasKey(Payload(blk.val), StyleKeys[1])
                        THEN Lookup(Payload(blk.val), StyleKeys[1])
                        ELSE DefaultStyleName,
                    !.style_params =
                        IF HasKey(Payload(blk.val), StyleKeys[2])
                        THEN Lookup(Payload(blk.val), StyleKeys[2])
                        ELSE PyDict(<<>>)]
          /\ loadPc' = "done"
          /\ pos' = blk.next
          /\ overrun' = (overrun \/ blk.over)
          /\ readLog' = Append(readLog, "style")
          /\ UNCHANGED <<flagsRead, loadErr>>
    /\ UNCHANGED <<synth, round, baseline, saveVars, tamper, input,
                   structureVars, emotionVars, batchVars, gridVars,
                   segmentVars, beatVars>>

\* a faulty style read: the length prefix is ignored and the block is taken
\* to extend to the end of the file
ReadStyle_ToEnd ==
    /\ loadPc = "style"
    /\ \E blk \in {ReadBlock(
                IF Len(disk.bytes) < pos + 4 THEN disk.bytes
                ELSE SubSeq(disk.bytes, 1, pos)
                        \o PackU32LE(Len(disk.bytes) - (pos + 4))
                        \o SubSeq(disk.bytes, pos + 5, Len(disk.bytes)),
                pos)} :
          IF blk.err # "" \/ Tag(blk.val) # "map"
          THEN Fail("ValueError", blk.next, blk.over,
                    Append(readLog, "style"), result)
          ELSE /\ result' = [result EXCEPT
                    !.style_name =
                        IF HasKey(Payload(blk.val), StyleKeys[1])
                        THEN Lookup(Payload(blk.val), StyleKeys[1])
                        ELSE DefaultStyleName,
                    !.style_params =
                        IF HasKey(Payload(blk.val), StyleKeys[2])
                        THEN Lookup(Payload(blk.val), StyleKeys[2])
                        ELSE PyDict(<<>>)]
               /\ loadPc' = "done"
               /\ pos' = blk.next
               /\ overrun' = (overrun \/ blk.over)
               /\ readLog' = Append(readLog, "style")
               /\ UNCHANGED <<flagsRead, loadErr>>
    /\ UNCHANGED <<synth, round, baseline, saveVars, tamper, input,
                   structureVars, emotionVars, batchVars, gridVars,
                   segmentVars, beatVars>>

\* the style block; style_data.get(...) needs a dict; then return result
ReadStyle ==
    /\ loadPc = "style"
    /\ \E blk \in {ReadBlock(disk.bytes, pos)} :
          IF blk.err # ""
          THEN Fail(blk.err, blk.next, blk.over, Append(readLog, "style"),
                    result)
          ELSE IF Tag(blk.val) # "map"
          THEN Fail("AttributeError", blk.next, blk.over,
                    Append(readLog, "style"), result)
          ELSE /\ result' = [result EXCEPT
                    !.style_name =
                        IF HasKey(Payload(blk.val), StyleKeys[1])
                        THEN Lookup(Payload(blk.val), StyleKeys[1])
                        ELSE DefaultStyleName,
                    !.style_params =
                        IF HasKey(Payload(blk.val), StyleKeys[2])
                        THEN Lookup(Payload(blk.val), StyleKeys[2])
                        ELSE PyDict(<<>>)]
               /\ loadPc' = "done"
               /\ pos' = blk.next
               /\ overrun' = (overrun \/ blk.over)
               /\ readLog' = Append(readLog, "style")
               /\ UNCHANGED <<flagsRead, loadErr>>
    /\ UNCHANGED <<synth, round, baseline, saveVars, tamper, input,
                   structureVars, emotionVars, batchVars, gridVars,
                   segmentVars, beatVars>>

\* the caller saves the SynthFile load() returned, to the same path
Resave ==
    /\ loadPc = "done"
    /\ round = 0
    /\ synth' = result
    /\ round' = 1
    /\ savePc' = "idle"
    /\ UNCHANGED <<disk, baseline, loadVars, structureVars, emotionVars,
                   batchVars, gridVars, segmentVars, beatVars>>

\* load() has returned the content of the file save() wrote; data is then
\* appended to the file and load() is called on it again
Reload ==
    /\ loadPc = "done"
    /\ round = 0
    /\ tamper = NoTamper
    /\ baseline = NoBaseline
    /\ baseline' = <<result>>
    /\ \E k \in 1..Len(TrailingData) :
          /\ tamper' = [kind |-> "append", a |-> k, b |-> 0]
          /\ disk' = [disk EXCEPT !.bytes = disk.bytes \o TrailingData[k]]
    /\ loadPc' = "idle"
    /\ input' = <<>>
    /\ pos' = 0
    /\ flagsRead' = 0
    /\ result' = DefaultSynthFile
    /\ loadErr' = ""
    /\ overrun' = FALSE
    /\ readLog' = <<>>
    /\ UNCHANGED <<synth, round, savePc, structureVars, emotionVars,
                   batchVars, gridVars, segmentVars, beatVars>>

(***************************************************************************)
(* The environment: between save() and load() the file may be changed.     *)
(* These are the inputs load() is given besides save()'s own output.       *)
(***************************************************************************)
\* offsets (0-based) of the length prefixes of the first n blocks from o
RECURSIVE BlockOffsets(_, _, _)
BlockOffsets(bytes, o, n) ==
    IF n = 0 THEN <<>>
    ELSE <<o>> \o BlockOffsets(bytes,
                    o + 4 + UnpackU32LE(SubSeq(bytes, o + 1, o + 4)), n - 1)

\* the number of blocks of a complete file with this flags word
NumBlocks(flags) ==
    2 + (IF HasVideoFlag(flags) THEN 2 ELSE 0)
      + (IF HasShaderFlag(flags) THEN 1 ELSE 0)

ReplaceAt(bytes, o, new) ==
    SubSeq(bytes, 1, o) \o new \o SubSeq(bytes, o + Len(new) + 1, Len(bytes))

\* (offset, byte) changes of the magic: other version bytes, another letter
MagicChanges == { <<5, 0>>, <<6, 2>>, <<7, 1>>, <<0, 115>> }

\* the largest flags word the environment writes
MaxFlags == 7

Tampers(bytes) ==
    LET flags == UnpackU32LE(SubSeq(bytes, 9, 12))
        offs == BlockOffsets(bytes, 12, NumBlocks(flags))
    IN  {[kind |-> "truncate", a |-> k, b |-> 0] : k \in 1..Len(bytes)}
        \cup {[kind |-> "append", a |-> i, b |-> 0] :
                 i \in 1..Len(TrailingData)}
        \cup {[kind |-> "magic", a |-> c[1], b |-> c[2]] : c \in MagicChanges}
        \cup {[kind |-> "flags", a |-> fl, b |-> 0] :
                 fl \in (0..MaxFlags) \ {flags}}
        \cup UNION {
               LET size == UnpackU32LE(SubSeq(bytes, offs[i] + 1, offs[i] + 4))
               IN {[kind |-> "length", a |-> i, b |-> n] :
                     n \in ({size - 1, size + 1,
                             Len(bytes) - (offs[i] + 4) + 1} \ {size})}
               : i \in 1..Len(offs)}

ApplyTamper(bytes, t) ==
    CASE t.kind = "truncate" -> SubSeq(bytes, 1, Len(bytes) - t.a)
      [] t.kind = "append" -> bytes \o TrailingData[t.a]
      [] t.kind = "magic" -> ReplaceAt(bytes, t.a, <<t.b>>)
      [] t.kind = "flags" -> ReplaceAt(bytes, 8, PackU32LE(t.a))
      [] t.kind = "length" ->
            ReplaceAt(bytes,
                      BlockOffsets(bytes, 12, t.a)[t.a], PackU32LE(t.b))

Tamper ==
    /\ savePc = "done"
    /\ loadPc = "idle"
    /\ tamper = NoTamper
    /\ \E t \in Tampers(disk.bytes) :
          /\ tamper' = t
          /\ disk' = [disk EXCEPT !.bytes = ApplyTamper(disk.bytes, t)]
    /\ UNCHANGED <<synth, round, baseline, savePc, loadPc, input, pos,
                   flagsRead, result, loadErr, overrun, readLog,
                   structureVars, emotionVars, batchVars, gridVars,
                   segmentVars, beatVars>>

\* the codec at rest, while another component is examined
CodecIdle ==
    /\ synth = DefaultSynthFile
    /\ disk = PrevDisk
    /\ savePc = "off"
    /\ tamper = NoTamper
    /\ loadPc = "off"
    /\ input = <<>>
    /\ round = 0
    /\ pos = 0
    /\ flagsRead = 0
    /\ result = DefaultSynthFile
    /\ loadErr = ""
    /\ overrun = FALSE
    /\ readLog = <<>>
    /\ baseline = NoBaseline

(***************************************************************************)
(* StructureDetector (structure_detector.py).  Times are counted in ticks  *)
(* of half a feature-frame period, so that a track may end between two     *)
(* frames; frame i lies at tick 2 * i.  The novelty curve is not computed: *)
(* whether novelty[i] exceeds the threshold is left open at every index    *)
(* the scan reads.                                                         *)
(***************************************************************************)
\* StructureDetector.__init__: sample_rate
sample_rate == 10

\* a faulty minimum segment length: half a second, less than a beat snap
\* may move the scan index back
min_segment_HalfSecond == sample_rate \div 2

\* a faulty minimum segment length: one second
min_segment_OneSecond == sample_rate

\* min_segment = int(4 * self.sample_rate)
min_segment == 4 * sample_rate

\* the longest track, in ticks
MaxDuration == 250

Abs(x) == IF x < 0 THEN -x ELSE x

\* i / self.sample_rate, as a time in ticks
FrameTime(i) == 2 * i

\* int(t * self.sample_rate) for a time t >= 0 in ticks
FrameIndex(t) == t \div 2

\* the number of 10 Hz feature frames of a track of duration d:
\* len(np.arange(0, d, 0.1))
NumFrames(d) == (d + 1) \div 2

\* beat_frames = [int(b * self.sample_rate) for b in beats]
BeatFrames(beats) == [k \in 1..Len(beats) |-> FrameIndex(beats[k])]

\* min(beat_frames, key=lambda b: abs(b - i)): the first of the nearest
NearestBeat(beat_frames, i) ==
    beat_frames[CHOOSE k \in 1..Len(beat_frames) :
        /\ \A j \in 1..Len(beat_frames) :
              Abs(beat_frames[j] - i) >= Abs(beat_frames[k] - i)
        /\ \A j \in 1..(k - 1) :
              Abs(beat_frames[j] - i) > Abs(beat_frames[k] - i)]

\* the frame a boundary found at i is put on: the nearest beat when it is
\* within one second
SnapToBeat(beat_frames, i) ==
    IF beat_frames # <<>>
          /\ Abs(NearestBeat(beat_frames, i) - i) < sample_rate
    THEN NearestBeat(beat_frames, i)
    ELSE i

\* a faulty ordering: the values from the largest down
RECURSIVE SortedSet_Descending(_)
SortedSet_Descending(S) ==
    IF S = {} THEN <<>>
    ELSE LET m == CHOOSE x \in S : \A y \in S : x >= y
         IN <<m>> \o SortedSet_Descending(S \ {m})

\* sorted(set(xs))
RECURSIVE SortedSet(_)
SortedSet(S) ==
    IF S = {} THEN <<>>
    ELSE LET m == CHOOSE x \in S : \A y \in S : x <= y
         IN <<m>> \o SortedSet(S \ {m})

\* SectionType values
SectionTypes == {"intro", "verse", "pre_chorus", "chorus", "bridge",
                 "breakdown", "buildup", "drop", "outro", "instrumental",
                 "unknown"}

\* sum(xs[lo..hi]), by halves
RECURSIVE SumOf(_, _, _)
SumOf(xs, lo, hi) ==
    IF lo > hi THEN 0
    ELSE IF lo = hi THEN xs[lo]
    ELSE SumOf(xs, lo, (lo + hi) \div 2)
            + SumOf(xs, (lo + hi) \div 2 + 1, hi)

\* the sum of the squares of xs[lo..hi], by halves
RECURSIVE SumSqOf(_, _, _)
SumSqOf(xs, lo, hi) ==
    IF lo > hi THEN 0
    ELSE IF lo = hi THEN xs[lo] * xs[lo]
    ELSE SumSqOf(xs, lo, (lo + hi) \div 2)
            + SumSqOf(xs, (lo + hi) \div 2 + 1, hi)

\* a faulty order of the rules: the energy rules before the position rules
ClassifySegment_EnergyFirst(start, end, duration, total, count, varNum, tempo) ==
    LET energy == Min(Max(total, 0), 100 * count)
        cc == count * count
    IN  IF energy > 80 * count
        THEN (IF tempo > 130 /\ varNum > 500 * cc THEN "drop" ELSE "chorus")
        ELSE IF energy > 60 * count
        THEN (IF varNum > 1000 * cc THEN "buildup" ELSE "chorus")
        ELSE IF energy > 40 * count
        THEN (IF end - start > 20 * FrameTime(sample_rate)
              THEN "verse" ELSE "pre_chorus")
        ELSE IF energy > 20 * count
        THEN (IF varNum < 200 * cc THEN "breakdown" ELSE "verse")
        ELSE IF 10 * start < duration /\ energy < 40 * count THEN "intro"
        ELSE IF 100 * start > 85 * duration /\ energy < 50 * count
        THEN "outro"
        ELSE IF 10 * start > 4 * duration /\ 10 * start < 7 * duration
        THEN "bridge"
        ELSE "verse"

\* _classify_segment.  The energy values are percent; the mean of the
\* segment is total / count, its variance varNum / count^2.
ClassifySegment(start, end, duration, total, count, varNum, tempo) ==
    LET energy == Min(Max(total, 0), 100 * count)
        cc == count * count
    IN  IF 10 * start < duration /\ energy < 40 * count THEN "intro"
        ELSE IF 100 * start > 85 * duration /\ energy < 50 * count
        THEN "outro"
        ELSE IF energy > 80 * count
        THEN (IF tempo > 130 /\ varNum > 500 * cc THEN "drop" ELSE "chorus")
        ELSE IF energy > 60 * count
        THEN (IF varNum > 1000 * cc THEN "buildup" ELSE "chorus")
        ELSE IF energy > 40 * count
        THEN (IF end - start > 20 * FrameTime(sample_rate)
              THEN "verse" ELSE "pre_chorus")
        ELSE IF energy > 20 * count
        THEN (IF varNum < 200 * cc THEN "breakdown" ELSE "verse")
        ELSE IF 10 * start > 4 * duration /\ 10 * start < 7 * duration
        THEN "bridge"
        ELSE "verse"

\* a faulty counter: a type not yet seen counts from 1
NextCount_FromOne(counts, type_key) ==
    IF counts[type_key] = 0 THEN 2 ELSE counts[type_key] + 1

\* section_counts.get(type_key, 0) + 1
NextCount(counts, type_key) == counts[type_key] + 1

\* the tracks detect is called on: durations of no frame, of less than a
\* frame, of one and two frames, of fewer frames than the smoothing window,
\* below, at and above twice the minimum segment length, and the longest
\* ones
Durations ==
    {0, 1, 2, 3, 3 * sample_rate, FrameTime(min_segment) + 1,
     FrameTime(2 * min_segment),
     FrameTime(2 * min_segment) + 3, MaxDuration - 1, MaxDuration}

\* beat timestamps in ticks: none, a beat every half second, a few beats
\* nine frames before multiples of the minimum segment length less nine
BeatLists ==
    { <<>>,
      [k \in 1..(MaxDuration \div sample_rate + 1) |-> sample_rate * (k - 1)],
      [k \in 1..3 |-> FrameTime(k * (min_segment - 9)) + 1] }

Tempos == {120, 140}

\* an energy curve, in percent, that rises to 1.0 at frames 12, 92 and 124
\* and falls back to 0.1 more quickly after each
Hills(n) ==
    LET Ramp(i, from, peak, to) ==
            IF from <= i /\ i <= peak
            THEN 10 + 10 * (((90 * (i - from)) \div (peak - from)) \div 10)
            ELSE IF peak < i /\ i < to
            THEN 10 + 10 * (((90 * (to - i)) \div (to - peak)) \div 10)
            ELSE 10
    IN  [i \in 1..n |-> Max(Ramp(i - 1, 0, 12, 26),
                            Max(Ramp(i - 1, 70, 92, 100),
                                Ramp(i - 1, 102, 124, 130)))]

\* an energy curve, in percent, of 0.8 up to frame 49, 1.0 on frames 50 to
\* 69 and 0.1 from frame 70 on: its moving average peaks at frame 60
Crest(n) ==
    [i \in 1..n |-> IF i - 1 < 50 THEN 80 ELSE IF i - 1 < 70 THEN 100 ELSE 10]

\* energy curves of n frames, in percent: constant ones, one that steps
\* with the minimum segment length, alternating ones, values above 1, two
\* with peaks
EnergyCurves(n) ==
    { Hills(n),
      Crest(n),
      [i \in 1..n |-> 50],
      [i \in 1..n |-> 30],
      [i \in 1..n |-> 10],
      [i \in 1..n |-> IF (i - 1) \div min_segment = 1 THEN 50 ELSE 90],
      [i \in 1..n |-> IF i % 2 = 0 THEN 200 ELSE 0],
      [i \in 1..n |-> IF i % 2 = 0 THEN 100 ELSE 30] }

Tracks ==
    { [duration |-> d, n |-> NumFrames(d), energy_curve |-> e, beats |-> b,
       tempo |-> t] :
         d \in Durations, e \in UNION {EnergyCurves(NumFrames(dd)) :
                                         dd \in Durations},
         b \in BeatLists, t \in Tempos }

\* feature matrix and energy curve time-aligned over the duration
ValidTrack(tr) ==
    /\ tr.n = NumFrames(tr.duration)
    /\ Len(tr.energy_curve) = tr.n

\* detect up to the scan loop of _detect_boundaries: the similarity matrix
\* and the novelty curve are computed, boundaries = [0.0], i = min_segment
DetectBoundaries ==
    /\ sdPc = "start"
    /\ sdPc' = "scan"
    /\ boundaries' = <<0>>
    /\ scanI' = min_segment
    /\ UNCHANGED <<track, climaxes, sdErr, segI, section_counts, sections,
                   codecVars, emotionVars, batchVars, gridVars, segmentVars,
                   beatVars>>

\* one iteration of while i < n - min_segment
ScanStep ==
    /\ sdPc = "scan"
    /\ scanI < track.n - min_segment
    /\ \E above \in BOOLEAN :
          IF above
          THEN \E b \in {SnapToBeat(BeatFrames(track.beats), scanI)} :
                  /\ boundaries' = Append(boundaries, FrameTime(b))
                  /\ scanI' = b + min_segment
          ELSE /\ scanI' = scanI + 1
               /\ UNCHANGED boundaries
    /\ UNCHANGED <<track, climaxes, sdErr, sdPc, segI, section_counts,
                   sections, codecVars, emotionVars, batchVars, gridVars,
                   segmentVars, beatVars>>

\* the loop ends: boundaries.append(duration); return sorted(set(boundaries));
\* _classify_segments starts with no sections and no counts
ScanEnd ==
    /\ sdPc = "scan"
    /\ scanI >= track.n - min_segment
    /\ boundaries' =
          SortedSet(SeqToSet(Append(boundaries, track.duration)))
    /\ sdPc' = "classify"
    /\ segI' = 1
    /\ sections' = <<>>
    /\ section_counts' = [t \in SectionTypes |-> 0]
    /\ UNCHANGED <<track, climaxes, sdErr, scanI, codecVars, emotionVars,
                   batchVars, gridVars, segmentVars, beatVars>>

\* one iteration of for i in range(len(boundaries) - 1)
ClassifyStep ==
    /\ sdPc = "classify"
    /\ segI <= Len(boundaries) - 1
    /\ segI' = segI + 1
    /\ LET start == boundaries[segI]
           end == boundaries[segI + 1]
           start_idx == FrameIndex(start)
           end_idx == Min(FrameIndex(end), Len(track.energy_curve))
       IN  IF start_idx >= end_idx
           THEN UNCHANGED <<section_counts, sections>>
           ELSE \E total \in {SumOf(track.energy_curve, start_idx + 1,
                                    end_idx)} :
                \E count \in {end_idx - start_idx} :
                \E varNum \in {count * SumSqOf(track.energy_curve,
                                   start_idx + 1, end_idx) - total * total} :
                \E type_key \in {ClassifySegment(start, end, track.duration,
                                     total, count, varNum, track.tempo)} :
                   /\ section_counts' = [section_counts EXCEPT
                         ![type_key] = NextCount(section_counts, type_key)]
                   /\ sections' = Append(sections,
                         [section_type |-> type_key,
                          start_time |-> start,
                          end_time |-> end,
                          energy |-> [total |-> total, count |-> count],
                          repetition |-> NextCount(section_counts, type_key),
                          confidence |-> 80])
    /\ UNCHANGED <<track, climaxes, sdErr, sdPc, scanI, boundaries,
                   codecVars, emotionVars, batchVars, gridVars, segmentVars,
                   beatVars>>

\* return sections; detect goes on with _detect_climaxes
ClassifyEnd ==
    /\ sdPc = "classify"
    /\ segI > Len(boundaries) - 1
    /\ sdPc' = "climaxes"
    /\ UNCHANGED <<track, climaxes, sdErr, scanI, boundaries, segI,
                   section_counts, sections, codecVars, emotionVars,
                   batchVars, gridVars, segmentVars, beatVars>>

\* np.convolve(energy_curve, np.ones(20) / 20, mode='same') of a non-empty
\* curve, as the sums over the windows in tenths (1.0 is 200): the energy
\* values drawn are multiples of 10 percent, so the sums are exact.  Entry
\* i + 1 is smoothed[i].
Smoothed(energy_curve) ==
    LET n == Len(energy_curve)
        first == (Min(n, 20) - 1) \div 2
    IN  [i \in 1..Max(n, 20) |->
           SumOf(energy_curve, Max(0, i - 1 + first - 19) + 1,
                 Min(n - 1, i - 1 + first) + 1) \div 10]

\* the candidate peaks: the indices i in range(1, len(smoothed) - 1) with
\* smoothed[i] above both neighbours and above np.mean(smoothed) +
\* np.std(smoothed)
Peaks(smoothed) ==
    LET len == Len(smoothed)
        sum == SumOf(smoothed, 1, len)
        var == len * SumSqOf(smoothed, 1, len) - sum * sum
        Above(x) == len * x - sum > 0
                       /\ (len * x - sum) * (len * x - sum) > var
    IN  {i \in 1..(len - 2) :
            /\ smoothed[i + 1] > smoothed[i]
            /\ smoothed[i + 1] > smoothed[i + 2]
            /\ Above(smoothed[i + 1])}

\* the label a peak takes from the first section with
\* start_time <= time <= end_time, "energy" when there is none
ContextLabel(time, secs) ==
    LET hits == {k \in 1..Len(secs) :
                    secs[k].start_time <= time /\ time <= secs[k].end_time}
        peak_section == secs[CHOOSE k \in hits : \A j \in hits : k <= j]
    IN  IF hits = {} THEN "energy"
        ELSE IF peak_section.section_type = "drop" THEN "drop"
        ELSE IF peak_section.section_type = "chorus" THEN "emotional"
        ELSE "energy"

\* a faulty test: every late and strong peak becomes the final climax
IsFinal_Every(time, intensity, duration, top, sofar) ==
    /\ 10 * time > 7 * duration
    /\ 10 * intensity > 8 * top

\* time > duration * 0.7 and not any(c.type == "final" for c in climaxes)
\* and intensity > 0.8 * max(smoothed)
IsFinal(time, intensity, duration, top, sofar) ==
    /\ 10 * time > 7 * duration
    /\ ~\E k \in 1..Len(sofar) : sofar[k].type = "final"
    /\ 10 * intensity > 8 * top

\* for peak in peaks, from entry k of the ascending list of peaks on
RECURSIVE ClimaxLoop(_, _, _, _, _, _)
ClimaxLoop(peaks, k, smoothed, secs, duration, sofar) ==
    IF k > Len(peaks) THEN sofar
    ELSE LET time == FrameTime(peaks[k])
             intensity == smoothed[peaks[k] + 1]
             top == CHOOSE x \in SeqToSet(smoothed) :
                       \A y \in SeqToSet(smoothed) : y <= x
         IN  ClimaxLoop(peaks, k + 1, smoothed, secs, duration,
                Append(sofar,
                   [time |-> time,
                    intensity |-> Min(intensity, 200),
                    type |-> IF IsFinal(time, intensity, duration, top, sofar)
                             THEN "final" ELSE ContextLabel(time, secs)]))

\* a faulty loop: the peaks are taken from the last to the first
DetectClimaxes_Descending ==
    /\ sdPc = "climaxes"
    /\ IF track.energy_curve = <<>>
       THEN /\ sdPc' = "error"
            /\ sdErr' = "ValueError"
            /\ UNCHANGED climaxes
       ELSE /\ \E smoothed \in {Smoothed(track.energy_curve)} :
                  climaxes' = ClimaxLoop(
                                 SortedSet_Descending(Peaks(smoothed)), 1,
                                 smoothed, sections, track.duration, <<>>)
            /\ sdPc' = "done"
            /\ UNCHANGED sdErr
    /\ UNCHANGED <<track, scanI, boundaries, segI, section_counts, sections,
                   codecVars, emotionVars, batchVars, gridVars, segmentVars,
                   beatVars>>

\* _detect_climaxes and return sections, climaxes; np.convolve raises
\* ValueError on an empty array
DetectClimaxes ==
    /\ sdPc = "climaxes"
    /\ IF track.energy_curve = <<>>
       THEN /\ sdPc' = "error"
            /\ sdErr' = "ValueError"
            /\ UNCHANGED climaxes
       ELSE /\ \E smoothed \in {Smoothed(track.energy_curve)} :
                  climaxes' = ClimaxLoop(SortedSet(Peaks(smoothed)), 1,
                                 smoothed, sections, track.duration, <<>>)
            /\ sdPc' = "done"
            /\ UNCHANGED sdErr
    /\ UNCHANGED <<track, scanI, boundaries, segI, section_counts, sections,
                   codecVars, emotionVars, batchVars, gridVars, segmentVars,
                   beatVars>>

StructureIdle ==
    /\ track = [duration |-> 0, n |-> 0, energy_curve |-> <<>>,
                beats |-> <<>>, tempo |-> 0]
    /\ sdPc = "idle"
    /\ scanI = 0
    /\ boundaries = <<>>
    /\ segI = 0
    /\ section_counts = [t \in SectionTypes |-> 0]
    /\ sections = <<>>
    /\ climaxes = <<>>
    /\ sdErr = ""

(***************************************************************************)
(* EmotionMapper (emotion_mapper.py).  Valence, arousal and intensity are  *)
(* fixed-point numbers: the value 1.0 is the integer One, chosen so that   *)
(* every sum, every product by 0.3 and 0.7 and every halving below is      *)
(* exact.  Energy values are percent, times are half seconds.              *)
(***************************************************************************)
\* the longest arc, in points
MaxSeconds == 4

RECURSIVE Pow10(_)
Pow10(k) == IF k = 0 THEN 1 ELSE 10 * Pow10(k - 1)

\* 0.001 and 1.0
Milli == 2 * Pow10(MaxSeconds - 1)
One == 1000 * Milli

\* np.clip(x, -1.0, 1.0)
Clip(x) == Min(Max(x, -One), One)

\* np.sign(x)
Sign(x) == IF x > 0 THEN 1 ELSE IF x < 0 THEN -1 ELSE 0

\* KEY_VALENCE.get(key, 0.0)
KEY_VALENCE(key) ==
    CASE key = "C" -> 300 * Milli
      [] key = "G" -> 350 * Milli
      [] key = "D" -> 400 * Milli
      [] key = "A" -> 300 * Milli
      [] key = "E" -> 250 * Milli
      [] key = "B" -> 200 * Milli
      [] key = "F" -> 250 * Milli
      [] key = "Bb" -> 150 * Milli
      [] key = "Eb" -> 100 * Milli
      [] key = "Ab" -> 0
      [] key = "Db" -> -50 * Milli
      [] key = "F#" -> 150 * Milli
      [] OTHER -> 0

\* mode.lower() on the modes drawn below
Lower(mode) == IF mode = "Lydian" THEN "lydian" ELSE mode

\* MODE_VALENCE.get(mode, 0.0)
MODE_VALENCE(mode) ==
    CASE mode = "major" -> 300 * Milli
      [] mode = "minor" -> -300 * Milli
      [] mode = "dorian" -> -100 * Milli
      [] mode = "phrygian" -> -400 * Milli
      [] mode = "lydian" -> 400 * Milli
      [] mode = "mixolydian" -> 200 * Milli
      [] mode = "aeolian" -> -250 * Milli
      [] mode = "locrian" -> -500 * Milli
      [] OTHER -> 0

\* CHORD_TENSION: a suffix, as a sequence of characters, and its tension
CHORD_TENSION ==
    << << <<>>, 0 >>,
       << <<"m">>, 100 * Milli >>,
       << <<"7">>, 300 * Milli >>,
       << <<"m", "a", "j", "7">>, 150 * Milli >>,
       << <<"m", "7">>, 200 * Milli >>,
       << <<"d", "i", "m">>, 600 * Milli >>,
       << <<"a", "u", "g">>, 500 * Milli >>,
       << <<"s", "u", "s", "2">>, 200 * Milli >>,
       << <<"s", "u", "s", "4">>, 250 * Milli >>,
       << <<"5">>, 50 * Milli >> >>

\* name.endswith(suffix)
EndsWith(name, suffix) ==
    /\ Len(suffix) <= Len(name)
    /\ SubSeq(name, Len(name) - Len(suffix) + 1, Len(name)) = suffix

\* a faulty base valence: the mode is left out
ComputeBaseValence_KeyOnly(key, mode) == Clip(KEY_VALENCE(key))

\* _compute_base_valence
ComputeBaseValence(key, mode) ==
    Clip(KEY_VALENCE(key) + MODE_VALENCE(Lower(mode)))

\* the None that _get_section_at returns
NoSection == [section_type |-> "", start_time |-> 0, end_time |-> 0]

\* _get_section_at: the first section with start_time <= time < end_time,
\* or None
GetSectionAt(time, secs) ==
    LET hits == {k \in 1..Len(secs) :
                    secs[k].start_time <= time /\ time < secs[k].end_time}
    IN IF hits = {} THEN NoSection
       ELSE secs[CHOOSE k \in hits : \A j \in hits : k <= j]

\* _get_chord_tension_at: of the first chord sounding at time, the tension
\* of the longest suffix of CHORD_TENSION its name ends with
GetChordTensionAt(time, chords) ==
    LET hits == {k \in 1..Len(chords) :
                    /\ chords[k].time <= time
                    /\ time < chords[k].time + chords[k].duration}
    IN IF hits = {} THEN 0
       ELSE LET name == chords[CHOOSE k \in hits : \A j \in hits : k <= j].chord
                fits == {k \in 1..Len(CHORD_TENSION) :
                            EndsWith(name, CHORD_TENSION[k][1])}
                best == CHOOSE k \in fits : \A j \in fits :
                            Len(CHORD_TENSION[j][1]) <= Len(CHORD_TENSION[k][1])
            IN CHORD_TENSION[best][2]

\* 'chorus' in section_name, ... for the SectionType values
NameContains(section_name, word) ==
    \/ section_name = word
    \/ word = "chorus" /\ section_name = "pre_chorus"

\* _compute_valence
ComputeValence(base_valence, section, chord_tension, energy) ==
    LET v1 == IF section = NoSection THEN base_valence
              ELSE IF NameContains(section.section_type, "chorus")
                      \/ NameContains(section.section_type, "drop")
              THEN base_valence + 200 * Milli
              ELSE IF NameContains(section.section_type, "breakdown")
              THEN base_valence - 100 * Milli
              ELSE IF NameContains(section.section_type, "bridge")
              THEN base_valence - 50 * Milli
              ELSE base_valence
        v2 == v1 - (chord_tension * 3) \div 10
        v3 == IF energy > 70 THEN v2 + 100 * Milli * Sign(v2) ELSE v2
    IN Clip(v3)

\* a faulty arousal: the energy term with the opposite sign
RawArousal_EnergyInverted(tempo, energy, section) ==
    (IF tempo > 140 THEN 400 * Milli
     ELSE IF tempo > 120 THEN 200 * Milli
     ELSE IF tempo > 100 THEN 0
     ELSE IF tempo > 80 THEN -200 * Milli
     ELSE -400 * Milli)
    + (50 - energy) * 8 * Milli

\* the arousal before the final np.clip
RawArousal(tempo, energy, section) ==
    (IF tempo > 140 THEN 400 * Milli
     ELSE IF tempo > 120 THEN 200 * Milli
     ELSE IF tempo > 100 THEN 0
     ELSE IF tempo > 80 THEN -200 * Milli
     ELSE -400 * Milli)
    + (energy - 50) * 8 * Milli
    + (IF section = NoSection THEN 0
       ELSE IF NameContains(section.section_type, "drop") THEN 300 * Milli
       ELSE IF NameContains(section.section_type, "chorus") THEN 200 * Milli
       ELSE IF NameContains(section.section_type, "buildup") THEN 150 * Milli
       ELSE IF NameContains(section.section_type, "breakdown")
               \/ NameContains(section.section_type, "intro")
       THEN -200 * Milli
       ELSE IF NameContains(section.section_type, "outro") THEN -150 * Milli
       ELSE 0)

\* a faulty _compute_arousal: the sum is returned as it is
ComputeArousal_NoClip(tempo, energy, section) ==
    RawArousal(tempo, energy, section)

\* _compute_arousal
ComputeArousal(tempo, energy, section) ==
    Clip(RawArousal(tempo, energy, section))

\* _map_to_emotion
MapToEmotion(valence, arousal) ==
    IF arousal > 300 * Milli
    THEN (IF valence > 300 * Milli
          THEN (IF arousal > 700 * Milli THEN "euphoria"
                ELSE IF valence > 600 * Milli THEN "joy"
                ELSE "excitement")
          ELSE IF valence < -300 * Milli
          THEN (IF arousal > 700 * Milli THEN "chaos"
                ELSE IF valence < -600 * Milli THEN "anger"
                ELSE "intensity")
          ELSE "urgency")
    ELSE IF arousal < -300 * Milli
    THEN (IF valence > 300 * Milli
          THEN (IF valence > 600 * Milli THEN "peace" ELSE "tenderness")
          ELSE IF valence < -300 * Milli
          THEN (IF valence < -600 * Milli THEN "dread" ELSE "sadness")
          ELSE "melancholy")
    ELSE (IF valence > 300 * Milli
          THEN (IF valence > 500 * Milli THEN "hope" ELSE "nostalgia")
          ELSE IF valence < -300 * Milli THEN "tension"
          ELSE "neutral")

\* (abs(valence) + abs(arousal)) / 2
Intensity(valence, arousal) == (Abs(valence) + Abs(arousal)) \div 2

\* a faulty smoothing: the previous value is the raw one
RECURSIVE SmoothFrom_RawPrevious(_, _, _)
SmoothFrom_RawPrevious(pts, i, smoothed) ==
    IF i > Len(pts) THEN smoothed
    ELSE IF i = 1 THEN SmoothFrom_RawPrevious(pts, 2, <<pts[1]>>)
    ELSE LET prev == pts[i - 1]
             new_valence == (prev.valence * 3 + pts[i].valence * 7) \div 10
             new_arousal == (prev.arousal * 3 + pts[i].arousal * 7) \div 10
         IN SmoothFrom_RawPrevious(pts, i + 1, Append(smoothed,
               [time |-> pts[i].time,
                emotion |-> MapToEmotion(new_valence, new_arousal),
                intensity |-> Intensity(new_valence, new_arousal),
                valence |-> new_valence,
                arousal |-> new_arousal]))

\* _smooth_emotions, on a list of at least two points: smoothed is the list
\* built so far, i the index of the next point
RECURSIVE SmoothFrom(_, _, _)
SmoothFrom(pts, i, smoothed) ==
    IF i > Len(pts) THEN smoothed
    ELSE IF i = 1 THEN SmoothFrom(pts, 2, <<pts[1]>>)
    ELSE LET prev == smoothed[Len(smoothed)]
             new_valence == (prev.valence * 3 + pts[i].valence * 7) \div 10
             new_arousal == (prev.arousal * 3 + pts[i].arousal * 7) \div 10
         IN SmoothFrom(pts, i + 1, Append(smoothed,
               [time |-> pts[i].time,
                emotion |-> MapToEmotion(new_valence, new_arousal),
                intensity |-> Intensity(new_valence, new_arousal),
                valence |-> new_valence,
                arousal |-> new_arousal]))

\* _smooth_emotions
SmoothEmotions(pts) == IF Len(pts) < 2 THEN pts ELSE SmoothFrom(pts, 1, <<>>)

\* a faulty choice: the emotion of the most points, the one that appears
\* first among equals
FindDominantEmotion_MostFrequent(pts) ==
    IF pts = <<>> THEN "neutral"
    ELSE LET total(e) == Cardinality({k \in 1..Len(pts) : pts[k].emotion = e})
             first(e) == CHOOSE k \in 1..Len(pts) :
                            /\ pts[k].emotion = e
                            /\ \A j \in 1..(k - 1) : pts[j].emotion # e
             seen == {pts[k].emotion : k \in 1..Len(pts)}
         IN CHOOSE e \in seen :
               /\ \A o \in seen : total(o) <= total(e)
               /\ \A o \in seen : total(o) = total(e) => first(e) <= first(o)

\* _find_dominant_emotion: the emotion with the largest summed intensity,
\* the one that appears first among equals
FindDominantEmotion(pts) ==
    IF pts = <<>> THEN "neutral"
    ELSE LET total(e) == SumOf([k \in 1..Len(pts) |->
                                  IF pts[k].emotion = e THEN pts[k].intensity
                                  ELSE 0], 1, Len(pts))
             first(e) == CHOOSE k \in 1..Len(pts) :
                            /\ pts[k].emotion = e
                            /\ \A j \in 1..(k - 1) : pts[j].emotion # e
             seen == {pts[k].emotion : k \in 1..Len(pts)}
         IN CHOOSE e \in seen :
               /\ \A o \in seen : total(o) <= total(e)
               /\ \A o \in seen : total(o) = total(e) => first(e) <= first(o)

\* the keys of the KEY_VALENCE table
Keys == {"C", "G", "D", "A", "E", "B", "F", "Bb", "Eb", "Ab", "Db", "F#"}

\* calls of map with no sections and no chords: every key of the table, in
\* major and in minor, slow to fast tempos, no energy curve and constant
\* ones of 0.3, 0.5 and 0.8
PlainSongs ==
    [ key : Keys,
      mode : {"major", "minor"},
      tempo : {70, 120, 180},
      energy_curve : {<<>>} \cup {[k \in 1..MaxSeconds |-> e] :
                                     e \in {30, 50, 80}},
      sections : {<<>>},
      duration : {1, 2, 2 * MaxSeconds},
      chords : {<<>>} ]

\* calls of map with sections, chords and changing energy
RichSongs ==
    [ key : {"D", "Db", "H"},
      mode : {"Lydian", "locrian", "major"},
      tempo : {60, 110, 150},
      energy_curve : { <<>>, <<100>>, <<0, 80, 300, -100>> },
      sections : { <<>>,
                   << [section_type |-> "chorus", start_time |-> 0,
                       end_time |-> 4],
                      [section_type |-> "breakdown", start_time |-> 4,
                       end_time |-> 8] >>,
                   << [section_type |-> "drop", start_time |-> 2,
                       end_time |-> 20] >> },
      duration : {0, 1, 2, 5, 2 * MaxSeconds, 2 * MaxSeconds + 1},
      chords : { <<>>,
                 << [chord |-> <<"B", "d", "i", "m">>, time |-> 0,
                     duration |-> 4],
                    [chord |-> <<"A", "m", "7">>, time |-> 4,
                     duration |-> 10] >> } ]

\* the arguments map is called with
Songs == RichSongs \cup PlainSongs

\* the EmotionPoint the loop body of map computes for index i of song s
PointAt(s, i) ==
    LET time == 2 * i
        energy_idx == Min((i * 10) \div 10, Len(s.energy_curve) - 1)
        energy == IF Len(s.energy_curve) > 0
                  THEN s.energy_curve[energy_idx + 1] ELSE 50
        section == GetSectionAt(time, s.sections)
        chord_tension == IF s.chords # <<>>
                         THEN GetChordTensionAt(time, s.chords) ELSE 0
        valence == ComputeValence(ComputeBaseValence(s.key, s.mode), section,
                                  chord_tension, energy)
        arousal == ComputeArousal(s.tempo, energy, section)
    IN  [time |-> time,
         emotion |-> MapToEmotion(valence, arousal),
         intensity |-> Intensity(valence, arousal),
         valence |-> valence,
         arousal |-> arousal]

\* the summary statistics and EmotionArc(...): a mean is kept as total and
\* count, of emotional_range only whether it is zero
ArcOf(pts) ==
    [points |-> pts,
     dominant_emotion |-> FindDominantEmotion(pts),
     emotional_range |->
         IF \E j, k \in 1..Len(pts) :
               \/ pts[j].valence # pts[k].valence
               \/ pts[j].arousal # pts[k].arousal
         THEN "positive" ELSE "zero",
     overall_valence |->
         [total |-> SumOf([k \in 1..Len(pts) |-> pts[k].valence],
                          1, Len(pts)),
          count |-> Max(Len(pts), 1)],
     overall_arousal |->
         [total |-> SumOf([k \in 1..Len(pts) |-> pts[k].arousal],
                          1, Len(pts)),
          count |-> Max(Len(pts), 1)]]

\* EmotionMapper.map as a function of its arguments
MapArc(s) ==
    ArcOf(SmoothEmotions([k \in 1..(s.duration \div 2) |-> PointAt(s, k - 1)]))

\* one iteration of for i in range(int(duration))
MapStep ==
    /\ emPc = "map"
    /\ Len(points) < song.duration \div 2
    /\ points' = Append(points, PointAt(song, Len(points)))
    /\ UNCHANGED <<song, emPc, arc, codecVars, structureVars, batchVars,
                   gridVars, segmentVars, beatVars>>

\* the loop ends: points = self._smooth_emotions(points)
Smooth ==
    /\ emPc = "map"
    /\ Len(points) >= song.duration \div 2
    /\ points' = SmoothEmotions(points)
    /\ emPc' = "summary"
    /\ UNCHANGED <<song, arc, codecVars, structureVars, batchVars, gridVars,
                   segmentVars, beatVars>>

\* the summary statistics and return EmotionArc(...)
Summarise ==
    /\ emPc = "summary"
    /\ arc' = ArcOf(points)
    /\ emPc' = "done"
    /\ UNCHANGED <<song, points, codecVars, structureVars, batchVars,
                   gridVars, segmentVars, beatVars>>

NoArc ==
    [points |-> <<>>, dominant_emotion |-> "neutral",
     emotional_range |-> "zero",
     overall_valence |-> [total |-> 0, count |-> 1],
     overall_arousal |-> [total |-> 0, count |-> 1]]

EmotionIdle ==
    /\ song = [key |-> "C", mode |-> "major", tempo |-> 0,
               energy_curve |-> <<>>, sections |-> <<>>, duration |-> 0,
               chords |-> <<>>]
    /\ emPc = "idle"
    /\ points = <<>>
    /\ arc = NoArc

(***************************************************************************)
(* The batch command (cli.py).  A path is a number and paths sort as       *)
(* numbers.  Every stage of the try block may raise an exception; what a   *)
(* stage computes is the subject of the other components.                  *)
(***************************************************************************)
\* the most files that match the extensions under the directory
MaxFiles == 3

\* directory.glob('*' + e) followed by directory.glob('**/*' + e), for a
\* directory with the matching files top at its top level and deep below
GlobLists(top, deep) == SortedSet(top) \o SortedSet(top \cup deep)

\* the lists audio_files = sorted(set(audio_files)) can be
Discovered ==
    { SortedSet(SeqToSet(GlobLists(top, deep))) :
         top \in SUBSET (1..MaxFiles), deep \in SUBSET (1..MaxFiles) }

\* the calls of the try block, in order: analyzer.analyze,
\* structure_detector.detect, emotion_mapper.map, create_synth_file,
\* synth_file.save
Stages == <<"analyze", "detect", "map", "create", "save">>

\* click.echo(f"Found ..."); if not audio_files: ... return; the counters
BatchStart ==
    /\ batchPc = "start"
    /\ IF audio_files = <<>>
       THEN /\ echoed' = echoed \o << <<"found", 0>>, <<"none">> >>
            /\ batchPc' = "done"
       ELSE /\ echoed' = Append(echoed, <<"found", Len(audio_files)>>)
            /\ batchPc' = "loop"
    /\ success' = 0
    /\ failed' = 0
    /\ fileI' = 1
    /\ UNCHANGED <<audio_files, codecVars, structureVars, emotionVars,
                   gridVars, segmentVars, beatVars>>

\* for i, audio_path in enumerate(audio_files, 1): click.echo(...); try:
BatchLoop ==
    /\ batchPc = "loop"
    /\ fileI <= Len(audio_files)
    /\ echoed' = Append(echoed, <<"track", audio_files[fileI]>>)
    /\ batchPc' = Stages[1]
    /\ UNCHANGED <<audio_files, fileI, success, failed, codecVars,
                   structureVars, emotionVars, gridVars, segmentVars,
                   beatVars>>

\* a handler that lets the exception end the command
StageFailed_Reraise ==
    /\ echoed' = Append(echoed, <<"error", audio_files[fileI]>>)
    /\ failed' = failed + 1
    /\ batchPc' = "done"
    /\ UNCHANGED <<fileI, success>>

\* except Exception as e: click.echo(..., err=True); failed += 1; the loop
\* goes on with the next file
StageFailed ==
    /\ echoed' = Append(echoed, <<"error", audio_files[fileI]>>)
    /\ failed' = failed + 1
    /\ fileI' = fileI + 1
    /\ batchPc' = "loop"
    /\ UNCHANGED success

\* one call of the try block: it raises, or it returns and the next one is
\* made; after synth_file.save: click.echo(...); success += 1
TryStage ==
    /\ \E k \in 1..Len(Stages) :
          /\ batchPc = Stages[k]
          /\ \E raised \in BOOLEAN :
                IF raised THEN StageFailed
                ELSE IF k < Len(Stages)
                THEN /\ batchPc' = Stages[k + 1]
                     /\ UNCHANGED <<fileI, success, failed, echoed>>
                ELSE /\ echoed' = Append(echoed, <<"ok", audio_files[fileI]>>)
                     /\ success' = success + 1
                     /\ fileI' = fileI + 1
                     /\ batchPc' = "loop"
                     /\ UNCHANGED failed
    /\ UNCHANGED <<audio_files, codecVars, structureVars, emotionVars,
                   gridVars, segmentVars, beatVars>>

\* the loop is exhausted: click.echo(f"Completed: ...")
BatchEnd ==
    /\ batchPc = "loop"
    /\ fileI > Len(audio_files)
    /\ echoed' = Append(echoed, <<"completed", success, failed>>)
    /\ batchPc' = "done"
    /\ UNCHANGED <<audio_files, fileI, success, failed, codecVars,
                   structureVars, emotionVars, gridVars, segmentVars,
                   beatVars>>

BatchIdle ==
    /\ audio_files = <<>>
    /\ batchPc = "idle"
    /\ fileI = 0
    /\ success = 0
    /\ failed = 0
    /\ echoed = <<>>

(***************************************************************************)
(* BeatTracker.refine_to_grid (beat_tracker.py).  Times are eighths of a   *)
(* second; the beats drawn are even, so that the median of an even number  *)
(* of offsets is exact.  The arguments are Python floats: a division by    *)
(* 0.0 raises ZeroDivisionError.  With a negative tempo the loop does not  *)
(* end; the model follows it for MaxGrid iterations.                       *)
(***************************************************************************)
\* the longest duration, in eighths of a second, and the longest grid
MaxGrid == 24

\* 60.0 / tempo, for a tempo other than 0 that divides 480
BeatInterval(tempo) ==
    IF tempo < 0 THEN -(480 \div (-tempo)) ELSE 480 \div tempo

\* b % beat_interval of Python floats, b >= 0: the result has the sign of
\* beat_interval
PyMod(b, beat_interval) ==
    IF beat_interval > 0 THEN b % beat_interval
    ELSE -((-b) % (-beat_interval))

\* np.median(xs) of a non-empty list
Median(xs) ==
    LET sorted == SortSeq(xs, LAMBDA a, b : a < b)
        n == Len(xs)
    IN IF n % 2 = 1 THEN sorted[(n + 1) \div 2]
       ELSE (sorted[n \div 2] + sorted[n \div 2 + 1]) \div 2

\* the calls of refine_to_grid: no beat, beats on and off the grid, a
\* tempo of zero, a negative tempo, durations before and after the first
\* grid time
GridCalls ==
    [beats : {<<>>, <<2>>, <<2, 12>>, <<0, 6, 10>>, <<4, 4, 14, 22>>},
     tempo : {-120, 0, 60, 120, 240},
     duration : {0, 8, 17, MaxGrid}]

\* refine_to_grid up to the while loop
RefineToGrid ==
    /\ gridPc = "start"
    /\ IF gridArgs.beats = <<>>
       THEN /\ gridPc' = "done"
            /\ UNCHANGED <<gridT, gridErr>>
       ELSE IF gridArgs.tempo = 0
       THEN /\ gridPc' = "error"
            /\ gridErr' = "ZeroDivisionError"
            /\ UNCHANGED gridT
       ELSE /\ gridPc' = "loop"
            /\ gridT' = Median([k \in 1..Len(gridArgs.beats) |->
                     PyMod(gridArgs.beats[k], BeatInterval(gridArgs.tempo))])
            /\ UNCHANGED gridErr
    /\ grid_beats' = <<>>
    /\ UNCHANGED <<gridArgs, codecVars, structureVars, emotionVars,
                   batchVars, segmentVars, beatVars>>

\* one iteration of while t < duration
GridStep ==
    /\ gridPc = "loop"
    /\ gridT < gridArgs.duration
    /\ Len(grid_beats) < MaxGrid
    /\ grid_beats' = Append(grid_beats, gridT)
    /\ gridT' = gridT + BeatInterval(gridArgs.tempo)
    /\ UNCHANGED <<gridArgs, gridPc, gridErr, codecVars, structureVars,
                   emotionVars, batchVars, segmentVars, beatVars>>

\* return grid_beats
GridEnd ==
    /\ gridPc = "loop"
    /\ gridT >= gridArgs.duration
    /\ gridPc' = "done"
    /\ UNCHANGED <<gridArgs, gridT, grid_beats, gridErr, codecVars,
                   structureVars, emotionVars, batchVars, segmentVars,
                   beatVars>>

GridIdle ==
    /\ gridArgs = [beats |-> <<>>, tempo |-> 0, duration |-> 0]
    /\ gridPc = "idle"
    /\ gridT = 0
    /\ grid_beats = <<>>
    /\ gridErr = ""

(***************************************************************************)
(* StructureDetector._classify_segment on its own (structure_detector.py). *)
(* Times are ticks of half a frame period; the segment energy is given in  *)
(* percent and its variance in percent squared, so 0.05 is 500.            *)
(***************************************************************************)
\* the calls: starts around every position threshold of a track of 50
\* seconds, segments up to, of and above 20 seconds, energies and variances
\* around every threshold, energies outside [0, 1], tempos around 130; a
\* duration of 0 as well
SegmentCalls ==
    { c \in [start : {0, 90, 100, 400, 410, 690, 700, 850, 860},
             length : {140, 400, 410},
             duration : {0, 1000},
             energy : {-10, 0, 20, 30, 40, 45, 50, 60, 70, 80, 90, 100, 150},
             energy_var : {0, 199, 200, 500, 501, 1000, 1001},
             tempo : {130, 131}] :
        \/ c.start + c.length <= c.duration
        \/ c.duration = 0 /\ c.start = 0 /\ c.length = 140 }

\* _classify_segment: position = start / duration raises ZeroDivisionError
\* for a duration of 0
ClassifySegmentCall ==
    /\ segPc = "start"
    /\ IF segArgs.duration = 0
       THEN /\ segPc' = "error"
            /\ segErr' = "ZeroDivisionError"
            /\ UNCHANGED segType
       ELSE /\ segPc' = "done"
            /\ segType' = ClassifySegment(segArgs.start,
                             segArgs.start + segArgs.length, segArgs.duration,
                             segArgs.energy, 1, segArgs.energy_var,
                             segArgs.tempo)
            /\ UNCHANGED segErr
    /\ UNCHANGED <<segArgs, codecVars, structureVars, emotionVars, batchVars,
                   gridVars, beatVars>>

SegmentIdle ==
    /\ segArgs = [start |-> 0, length |-> 0, duration |-> 0, energy |-> 0,
                  energy_var |-> 0, tempo |-> 0]
    /\ segPc = "idle"
    /\ segType = "unknown"
    /\ segErr = ""

(***************************************************************************)
(* The beat list and the downbeats of the four beat extraction paths       *)
(* (beat_tracker.py, essentia_analyzer.py).  The beat times a path finds   *)
(* in the audio are left open; times are ticks.                            *)
(***************************************************************************)
\* the longest beat list
MaxBeats == 9

\* the beat lists found: ascending times, from none to MaxBeats beats
BeatTimes ==
    { [k \in 1..n |-> first + step * (k - 1)] :
         n \in 0..MaxBeats, first \in {0, 1}, step \in {2, 3} }

\* beat_times[::4]
EveryFourth(beat_times) ==
    [k \in 1..((Len(beat_times) + 3) \div 4) |-> beat_times[4 * (k - 1) + 1]]

\* beat_times[::4].tolist() if len(beat_times) >= 4 else beat_times.tolist()
EveryFourthOrAll(beat_times) ==
    IF Len(beat_times) >= 4 THEN EveryFourth(beat_times) ELSE beat_times

\* BeatTracker._track_librosa: time_sig = (4, 4) and
\* downbeats = beat_times[::beats_per_bar].tolist()
TrackLibrosa ==
    /\ beatPc = "start"
    /\ beatArgs.path = "_track_librosa"
    /\ beatInfo' = [beats |-> beatArgs.beat_times,
                    downbeats |-> EveryFourth(beatArgs.beat_times),
                    time_signature |-> <<4, 4>>]
    /\ beatPc' = "done"
    /\ UNCHANGED <<beatArgs, codecVars, structureVars, emotionVars, batchVars,
                   gridVars, segmentVars>>

\* BeatTracker._track_simple
TrackSimple ==
    /\ beatPc = "start"
    /\ beatArgs.path = "_track_simple"
    /\ beatInfo' = [beats |-> beatArgs.beat_times,
                    downbeats |-> EveryFourthOrAll(beatArgs.beat_times),
                    time_signature |-> <<4, 4>>]
    /\ beatPc' = "done"
    /\ UNCHANGED <<beatArgs, codecVars, structureVars, emotionVars, batchVars,
                   gridVars, segmentVars>>

\* EssentiaAnalyzer._analyze_essentia: downbeats and BeatInfo
AnalyzeEssentia ==
    /\ beatPc = "start"
    /\ beatArgs.path = "_analyze_essentia"
    /\ beatInfo' = [beats |-> beatArgs.beat_times,
                    downbeats |-> EveryFourthOrAll(beatArgs.beat_times),
                    time_signature |-> <<4, 4>>]
    /\ beatPc' = "done"
    /\ UNCHANGED <<beatArgs, codecVars, structureVars, emotionVars, batchVars,
                   gridVars, segmentVars>>

\* EssentiaAnalyzer._analyze_librosa: BeatInfo
AnalyzeLibrosa ==
    /\ beatPc = "start"
    /\ beatArgs.path = "_analyze_librosa"
    /\ beatInfo' = [beats |-> beatArgs.beat_times,
                    downbeats |-> EveryFourthOrAll(beatArgs.beat_times),
                    time_signature |-> <<4, 4>>]
    /\ beatPc' = "done"
    /\ UNCHANGED <<beatArgs, codecVars, structureVars, emotionVars, batchVars,
                   gridVars, segmentVars>>

BeatIdle ==
    /\ beatArgs = [path |-> "", beat_times |-> <<>>]
    /\ beatPc = "idle"
    /\ beatInfo = [beats |-> <<>>, downbeats |-> <<>>,
                   time_signature |-> <<>>]

(***************************************************************************)
(* Specifications, one per component                                       *)
(***************************************************************************)
CodecInit ==
    /\ SegmentIdle
    /\ BeatIdle
    /\ synth \in SynthFiles
    /\ disk = PrevDisk
    /\ savePc = "idle"
    /\ tamper = NoTamper
    /\ loadPc = "idle"
    /\ input = <<>>
    /\ round = 0
    /\ pos = 0
    /\ flagsRead = 0
    /\ result = DefaultSynthFile
    /\ loadErr = ""
    /\ overrun = FALSE
    /\ readLog = <<>>
    /\ baseline = NoBaseline
    /\ StructureIdle
    /\ EmotionIdle
    /\ BatchIdle
    /\ GridIdle

CodecNext ==
    \/ SaveOpen
    \/ WriteMagic
    \/ WriteFlags
    \/ WriteAnalysis
    \/ WriteVideo
    \/ WriteShader
    \/ WriteStyle
    \/ Tamper
    \/ LoadOpen
    \/ ReadMagic
    \/ ReadFlags
    \/ ReadAnalysis
    \/ ReadVideo
    \/ ReadShader
    \/ ReadStyle
    \/ Resave
    \/ Reload

SpecCodec == CodecInit /\ [][CodecNext]_vars

StructureInit ==
    /\ SegmentIdle
    /\ BeatIdle
    /\ CodecIdle
    /\ EmotionIdle
    /\ BatchIdle
    /\ GridIdle
    /\ track \in {tr \in Tracks : ValidTrack(tr) \/ tr.energy_curve = <<>>}
    /\ sdPc = "start"
    /\ scanI = 0
    /\ boundaries = <<>>
    /\ segI = 0
    /\ section_counts = [t \in SectionTypes |-> 0]
    /\ sections = <<>>
    /\ climaxes = <<>>
    /\ sdErr = ""

StructureNext ==
    \/ DetectBoundaries
    \/ ScanStep
    \/ ScanEnd
    \/ ClassifyStep
    \/ ClassifyEnd
    \/ DetectClimaxes

SpecStructure == StructureInit /\ [][StructureNext]_vars

\* detect with its scan loop running: an iteration that can be made, and
\* the step that leaves the loop, are made
SpecStructureLive ==
    StructureInit /\ [][StructureNext]_vars /\ WF_vars(ScanStep \/ ScanEnd)

EmotionInit ==
    /\ SegmentIdle
    /\ BeatIdle
    /\ CodecIdle
    /\ StructureIdle
    /\ BatchIdle
    /\ GridIdle
    /\ song \in Songs
    /\ emPc = "map"
    /\ points = <<>>
    /\ arc = NoArc

EmotionNext ==
    \/ MapStep
    \/ Smooth
    \/ Summarise

SpecEmotion == EmotionInit /\ [][EmotionNext]_vars

BatchInit ==
    /\ SegmentIdle
    /\ BeatIdle
    /\ CodecIdle
    /\ StructureIdle
    /\ EmotionIdle
    /\ GridIdle
    /\ audio_files \in Discovered
    /\ batchPc = "start"
    /\ fileI = 0
    /\ success = 0
    /\ failed = 0
    /\ echoed = <<>>

BatchNext ==
    \/ BatchStart
    \/ BatchLoop
    \/ TryStage
    \/ BatchEnd

SpecBatch == BatchInit /\ [][BatchNext]_vars

GridInit ==
    /\ SegmentIdle
    /\ BeatIdle
    /\ CodecIdle
    /\ StructureIdle
    /\ EmotionIdle
    /\ BatchIdle
    /\ gridArgs \in GridCalls
    /\ gridPc = "start"
    /\ gridT = 0
    /\ grid_beats = <<>>
    /\ gridErr = ""

GridNext ==
    \/ RefineToGrid
    \/ GridStep
    \/ GridEnd

SpecGrid == GridInit /\ [][GridNext]_vars

SegmentInit ==
    /\ CodecIdle
    /\ StructureIdle
    /\ EmotionIdle
    /\ BatchIdle
    /\ GridIdle
    /\ BeatIdle
    /\ segArgs \in SegmentCalls
    /\ segPc = "start"
    /\ segType = "unknown"
    /\ segErr = ""

SegmentNext == ClassifySegmentCall

SpecSegment == SegmentInit /\ [][SegmentNext]_vars

BeatInit ==
    /\ CodecIdle
    /\ StructureIdle
    /\ EmotionIdle
    /\ BatchIdle
    /\ GridIdle
    /\ SegmentIdle
    /\ beatArgs \in [path : {"_track_librosa", "_track_simple",
                             "_analyze_essentia", "_analyze_librosa"},
                     beat_times : BeatTimes]
    /\ beatPc = "start"
    /\ beatInfo = [beats |-> <<>>, downbeats |-> <<>>,
                   time_signature |-> <<>>]

BeatNext ==
    \/ TrackLibrosa
    \/ TrackSimple
    \/ AnalyzeEssentia
    \/ AnalyzeLibrosa

SpecBeat == BeatInit /\ [][BeatNext]_vars

(***************************************************************************)
(* Properties of the codec                                                 *)
(***************************************************************************)
\* C1 (as stated): for a track whose feature matrix and energy curve are
\* time-aligned over its duration, the sections detect returns start at 0,
\* end at the duration, have start_time < end_time each, and each ends where
\* the next starts: they partition [0, duration).
SectionsPartitionTrack ==
    (sdPc = "done" /\ ValidTrack(track) /\ track.duration > 0) =>
       /\ sections # <<>>
       /\ sections[1].start_time = 0
       /\ sections[Len(sections)].end_time = track.duration
       /\ \A k \in 1..Len(sections) :
             sections[k].start_time < sections[k].end_time
       /\ \A k \in 1..(Len(sections) - 1) :
             sections[k].end_time = sections[k + 1].start_time

\* C2: in the sections list, while it is built and when it is returned, the
\* repetition of every section is the number of sections of its type up to
\* and including it: 1 for the first of a type, one more for each later one,
\* whatever sections of other types lie between; and the counter kept for a
\* type is the number of sections of that type.
RepetitionCounters ==
    /\ \A k \in 1..Len(sections) :
          sections[k].repetition =
             Cardinality({j \in 1..k :
                sections[j].section_type = sections[k].section_type})
    /\ \A t \in SectionTypes :
          section_counts[t] =
             Cardinality({j \in 1..Len(sections) :
                sections[j].section_type = t})

\* three sections were returned, the first and the third of one type with a
\* section of another type between them
RepetitionCountersWitness ==
    /\ sdPc = "done"
    /\ Len(sections) = 3
    /\ sections[1].section_type = sections[3].section_type
    /\ sections[2].section_type # sections[1].section_type
    /\ sections[1].repetition = 1
    /\ sections[2].repetition = 1
    /\ sections[3].repetition = 2

\* C3: the valence and the arousal of every EmotionPoint lie in [-1, 1]: of
\* the raw points while map builds them, of the smoothed points, and of the
\* points of the arc returned.
ValenceArousalBounded ==
    /\ \A k \in 1..Len(points) :
          /\ -One <= points[k].valence /\ points[k].valence <= One
          /\ -One <= points[k].arousal /\ points[k].arousal <= One
    /\ \A k \in 1..Len(arc.points) :
          /\ -One <= arc.points[k].valence /\ arc.points[k].valence <= One
          /\ -One <= arc.points[k].arousal /\ arc.points[k].arousal <= One

\* an arc was returned for a song whose energy takes the arousal above 1 at
\* one second and below -1 at another before clipping
ValenceArousalBoundedWitness ==
    /\ emPc = "done"
    /\ Len(arc.points) = MaxSeconds
    /\ Len(song.energy_curve) = 4
    /\ RawArousal(song.tempo, song.energy_curve[3],
                  GetSectionAt(4, song.sections)) > One
    /\ RawArousal(song.tempo, song.energy_curve[4],
                  GetSectionAt(6, song.sections)) < -One
    /\ arc.points[3].arousal <= One
    /\ arc.points[4].arousal >= -One
    /\ arc.points[4].arousal # points[3].arousal

ResaveReproducesAccepted ==
    (round = 1 /\ savePc = "done") => disk.bytes = input

\* C5 (amended): when the bytes load accepted are the unchanged output of a
\* save, saving the loaded object writes exactly those bytes.
ResaveReproducesSaved ==
    (round = 1 /\ savePc = "done" /\ tamper = NoTamper) => disk.bytes = input

\* a file with all five blocks was loaded unchanged and saved again
ResaveReproducesSavedWitness ==
    /\ round = 1 /\ savePc = "done" /\ tamper = NoTamper
    /\ synth.video_segments # <<>> /\ synth.shader_curves # None
    /\ Len(input) > 12
    /\ disk.bytes = input

\* C6: a file save has completed consists of the magic 53 59 4E 54 48 00 01
\* 00, the flags as four little-endian bytes, and then exactly the blocks
\* analysis, video and transitions iff bit 0, shader iff bit 1, style, each a
\* four-byte little-endian length followed by that many bytes of payload;
\* bit 0 is set iff video_segments is non-empty, bit 1 iff shader curves are
\* present, and no other bit is set.
FileLayout ==
    (round = 0 /\ savePc = "done" /\ tamper = NoTamper /\ loadPc = "idle") =>
       LET b == disk.bytes
           u32(o) == b[o + 1] + 256 * b[o + 2] + 65536 * b[o + 3]
                        + 16777216 * b[o + 4]
           bit0 == u32(8) % 2 = 1
           bit1 == (u32(8) \div 2) % 2 = 1
           n == 2 + (IF bit0 THEN 2 ELSE 0) + (IF bit1 THEN 1 ELSE 0)
           RECURSIVE off(_)
           off(i) == IF i = 1 THEN 12 ELSE off(i - 1) + 4 + u32(off(i - 1))
           val(i) == Unpackb(SubSeq(b, off(i) + 5, off(i + 1)))
       IN  /\ Len(b) >= 12
           /\ SubSeq(b, 1, 8) = <<83, 89, 78, 84, 72, 0, 1, 0>>
           /\ u32(8) \in 0..3
           /\ bit0 <=> (synth.video_segments # <<>>)
           /\ bit1 <=> (synth.shader_curves # None)
           /\ \A i \in 1..n : off(i) + 4 <= Len(b) /\ off(i + 1) <= Len(b)
           /\ off(n + 1) = Len(b)
           /\ \A i \in 1..n : val(i).ok
           /\ Tag(val(1).val) = "map"
           /\ Len(Payload(val(1).val)) =
                 IF synth.analysis = None THEN 0 ELSE Len(AnalysisFields)
           /\ bit0 => /\ Tag(val(2).val) = "list"
                      /\ Len(Payload(val(2).val)) = Len(synth.video_segments)
                      /\ Tag(val(3).val) = "list"
                      /\ Len(Payload(val(3).val)) = Len(synth.transitions)
           /\ bit1 => /\ Tag(val(n - 1).val) = "map"
                      /\ Len(Payload(val(n - 1).val)) = Len(ShaderCurvesFields)
           /\ val(n).val = PyDict(<< <<PyStr(<<110, 97, 109, 101>>),
                                       synth.style_name>>,
                                     <<PyStr(<<112, 97, 114, 97, 109, 115>>),
                                       synth.style_params>> >>)

\* a file with both flag bits set and all five blocks has been written
FileLayoutWitness ==
    /\ round = 0 /\ savePc = "done" /\ tamper = NoTamper /\ loadPc = "idle"
    /\ synth.video_segments # <<>> /\ synth.shader_curves # None
    /\ disk.bytes[9] = 3
    /\ Len(BlockOffsets(disk.bytes, 12, 5)) = 5

\* C7: load of a saved file that lost its last k >= 1 bytes never returns a
\* result: it ends in an error.
TruncatedFileRejected ==
    tamper.kind = "truncate" =>
       /\ loadPc # "done"
       /\ loadPc \notin {"idle", "magic", "flags", "analysis", "video",
                         "shader", "style"} => loadPc = "error"

\* a file that lost its last 4 bytes, inside the style block: the earlier
\* blocks were read, a result was being filled, and load ended in an error
TruncatedFileRejectedWitness ==
    /\ tamper.kind = "truncate" /\ tamper.a = 4
    /\ loadPc = "error"
    /\ readLog[Len(readLog)] = "style"
    /\ result.analysis # None

\* C8: when the first 8 bytes of the file are not the magic (fewer than 8
\* bytes and another version byte included), load ends in an error after
\* the magic read: the flags word and the blocks are never read.
BadMagicRejected ==
    (loadPc \notin {"idle", "magic"}
        /\ (Len(input) < 8
              \/ SubSeq(input, 1, 8) # <<83, 89, 78, 84, 72, 0, 1, 0>>)) =>
       /\ loadPc = "error"
       /\ loadErr = "ValueError"
       /\ pos <= 8
       /\ readLog = <<>>
       /\ result = DefaultSynthFile

\* a file whose version byte was changed from 1 to 2 has been rejected
BadMagicRejectedWitness ==
    /\ tamper.kind = "magic" /\ tamper.a = 6 /\ tamper.b = 2
    /\ Len(input) > 12
    /\ loadPc = "error"
    /\ loadErr = "ValueError"

\* C9 (as stated): a load that met a block whose length prefix exceeds the
\* bytes remaining in the file never returns a result.
LengthOverrunRejected ==
    overrun => loadPc # "done"

\* C10 (as stated): a save that ends in an error leaves the destination as
\* it was before the save.
FailedSaveLeavesDestination ==
    savePc = "failed" => disk = PrevDisk

(***************************************************************************)
(* Properties of the batch command                                         *)
(***************************************************************************)
\* C11: batch attempts every discovered file exactly once, in sorted
\* order: the files announced so far are the first ones of the sorted,
\* duplicate-free list, every track whose try block has ended is reported
\* as done or as failed, and the counters count these reports.  When the
\* loop has ended every file has been attempted, whatever failed before
\* it, and success + failed is the number of discovered files.
BatchEveryFileOnce ==
    LET IsTrack(e) == e[1] = "track"
        IsOutcome(e) == e[1] \in {"ok", "error"}
        IsOk(e) == e[1] = "ok"
        IsError(e) == e[1] = "error"
        attempts == SelectSeq(echoed, IsTrack)
        outcomes == SelectSeq(echoed, IsOutcome)
    IN  /\ \A i, j \in 1..Len(audio_files) :
              i < j => audio_files[i] < audio_files[j]
        /\ Len(attempts) <= Len(audio_files)
        /\ \A k \in 1..Len(attempts) : attempts[k][2] = audio_files[k]
        /\ Len(outcomes) \in {Len(attempts), Len(attempts) - 1}
        /\ \A k \in 1..Len(outcomes) : outcomes[k][2] = audio_files[k]
        /\ success = Len(SelectSeq(echoed, IsOk))
        /\ failed = Len(SelectSeq(echoed, IsError))
        /\ batchPc = "done" =>
              /\ Len(attempts) = Len(audio_files)
              /\ Len(outcomes) = Len(audio_files)
              /\ success + failed = Len(audio_files)

\* a batch that has ended, in which a track failed and a later one was
\* processed
BatchEveryFileOnceWitness ==
    /\ batchPc = "done"
    /\ Len(audio_files) = MaxFiles
    /\ \E i, j \in 1..Len(echoed) :
          /\ i < j
          /\ echoed[i] = <<"error", audio_files[1]>>
          /\ echoed[j] = <<"ok", audio_files[2]>>
    /\ failed >= 1
    /\ success >= 1

(***************************************************************************)
(* Properties of the optional blocks and of trailing data                  *)
(***************************************************************************)
\* C14 (as stated): a SynthFile read back from the unchanged file save
\* wrote has the video_segments list, the transitions list, the style name
\* and the style parameters that were saved, whichever of the lists are
\* empty.
ListsAndStyleRoundTrip ==
    (round = 0 /\ savePc = "done" /\ tamper = NoTamper /\ loadPc = "done") =>
       /\ result.video_segments = synth.video_segments
       /\ result.transitions = synth.transitions
       /\ result.style_name = synth.style_name
       /\ result.style_params = synth.style_params

\* C15: the blocks load attempts to read are decided by the flags word it
\* read and by nothing else: they are, in order, the flags, the analysis,
\* the video segments and the transitions iff bit 0 is set, the shader
\* curves iff bit 1 is set, and the style.  A load that returns has
\* attempted all of them; a load that has not returned, or that raised, has
\* attempted the first ones of this list.
BlocksReadFromFlags ==
    LET expected ==
            <<"flags", "analysis">>
               \o (IF flagsRead % 2 = 1 THEN <<"video", "transitions">>
                   ELSE <<>>)
               \o (IF (flagsRead \div 2) % 2 = 1 THEN <<"shader">> ELSE <<>>)
               \o <<"style">>
    IN  /\ Len(readLog) <= Len(expected)
        /\ readLog = SubSeq(expected, 1, Len(readLog))
        /\ loadPc = "done" => readLog = expected

\* a file saved without optional blocks whose flags word was set to 3: load
\* tries to read a video block although only the style block is left
BlocksReadFromFlagsWitness ==
    /\ tamper = [kind |-> "flags", a |-> 3, b |-> 0]
    /\ Flags(synth) = 0
    /\ flagsRead = 3
    /\ loadPc = "error"
    /\ Len(readLog) >= 3
    /\ readLog[3] = "video"

\* C16: when data is appended to a file that load has read, load of the
\* longer file succeeds and returns the SynthFile it returned before.
TrailingDataTolerated ==
    baseline # NoBaseline =>
       /\ tamper.kind = "append"
       /\ loadPc # "error"
       /\ loadPc = "done" => result = baseline[1]

\* a file with all five blocks, to which a whole block was appended, has
\* been loaded a second time
TrailingDataToleratedWitness ==
    /\ baseline # NoBaseline
    /\ loadPc = "done"
    /\ tamper.a = Len(TrailingData)
    /\ Len(readLog) = 6
    /\ Len(disk.bytes) > pos
    /\ result = synth


(***************************************************************************)
(* Properties of the emotion summary                                       *)
(***************************************************************************)
\* C17 (as stated): for a track in major, in any key of the KEY_VALENCE
\* table, with no sections and no chords, overall_valence is strictly
\* positive; and when the tempo lies in (100, 120] and every energy sample
\* is 0.5, every point has arousal 0 and overall_arousal is 0.
MajorValencePositive ==
    (emPc = "done" /\ song.sections = <<>> /\ song.chords = <<>>
        /\ song.mode = "major" /\ song.key \in Keys) =>
       /\ arc.overall_valence.total > 0
       /\ (song.tempo > 100 /\ song.tempo <= 120
             /\ \A k \in 1..Len(song.energy_curve) : song.energy_curve[k] = 50)
          => /\ \A k \in 1..Len(arc.points) : arc.points[k].arousal = 0
             /\ arc.overall_arousal.total = 0

\* C17 (amended): the same for a track of at least one second, for which
\* map computes at least one point.
MajorValencePositiveWithPoints ==
    (emPc = "done" /\ song.sections = <<>> /\ song.chords = <<>>
        /\ song.mode = "major" /\ song.key \in Keys) =>
       /\ arc.points # <<>> => arc.overall_valence.total > 0
       /\ (song.tempo > 100 /\ song.tempo <= 120
             /\ \A k \in 1..Len(song.energy_curve) : song.energy_curve[k] = 50)
          => /\ \A k \in 1..Len(arc.points) : arc.points[k].arousal = 0
             /\ arc.overall_arousal.total = 0

\* the key with the lowest valence, in major, tempo 120, energy 0.5
\* throughout, the longest duration: the arc is returned, its valence is
\* 0.25 at every point and its arousal 0
MajorValencePositiveWitness ==
    /\ emPc = "done"
    /\ song = [key |-> "Db", mode |-> "major", tempo |-> 120,
               energy_curve |-> [k \in 1..MaxSeconds |-> 50],
               sections |-> <<>>, duration |-> 2 * MaxSeconds,
               chords |-> <<>>]
    /\ Len(arc.points) = MaxSeconds
    /\ arc.overall_valence.total = MaxSeconds * 250 * Milli
    /\ arc.overall_arousal.total = 0

\* C18 (as stated): with no sections, no chords and a constant energy,
\* overall_arousal does not decrease when the tempo or the energy is
\* raised; a track in minor has a strictly lower overall_valence than a
\* track in C major; (A, minor, 70, 0.3) has strictly lower overall_valence
\* and overall_arousal than (C, major, 120, 0.5); (D, major, 180, 0.8) has
\* overall_arousal > 0.6.
ArousalMonotoneValenceOrdered ==
    (emPc = "done" /\ song \in PlainSongs) =>
       LET Energy(s) == IF s.energy_curve = <<>> THEN 50
                        ELSE s.energy_curve[1]
           Less(m, n) == m.total * n.count < n.total * m.count
           CMajor == {s \in PlainSongs : s.key = "C" /\ s.mode = "major"}
       IN  /\ \A s \in PlainSongs :
                 (s.key = song.key /\ s.mode = song.mode
                    /\ s.duration = song.duration
                    /\ s.tempo >= song.tempo /\ Energy(s) >= Energy(song))
                 => ~Less(MapArc(s).overall_arousal, arc.overall_arousal)
           /\ song.mode = "minor" =>
                 \A s \in CMajor :
                    Less(arc.overall_valence, MapArc(s).overall_valence)
           /\ (song.key = "A" /\ song.mode = "minor" /\ song.tempo = 70
                 /\ Energy(song) = 30 /\ song.energy_curve # <<>>) =>
                 \A s \in CMajor :
                    (s.tempo = 120 /\ s.energy_curve # <<>> /\ Energy(s) = 50)
                    => /\ Less(arc.overall_valence, MapArc(s).overall_valence)
                       /\ Less(arc.overall_arousal, MapArc(s).overall_arousal)
           /\ (song.key = "D" /\ song.mode = "major" /\ song.tempo = 180
                 /\ Energy(song) = 80) =>
                 10 * arc.overall_arousal.total
                    > 6 * One * arc.overall_arousal.count

\* C18 (amended): the same, the strict comparisons for tracks of at least
\* one second, for which map computes at least one point.
ArousalMonotoneValenceOrderedWithPoints ==
    (emPc = "done" /\ song \in PlainSongs) =>
       LET Energy(s) == IF s.energy_curve = <<>> THEN 50
                        ELSE s.energy_curve[1]
           Less(m, n) == m.total * n.count < n.total * m.count
           CMajor == {s \in PlainSongs : s.key = "C" /\ s.mode = "major"
                                          /\ s.duration >= 2}
       IN  /\ \A s \in PlainSongs :
                 (s.key = song.key /\ s.mode = song.mode
                    /\ s.duration = song.duration
                    /\ s.tempo >= song.tempo /\ Energy(s) >= Energy(song))
                 => ~Less(MapArc(s).overall_arousal, arc.overall_arousal)
           /\ (song.mode = "minor" /\ arc.points # <<>>) =>
                 \A s \in CMajor :
                    Less(arc.overall_valence, MapArc(s).overall_valence)
           /\ (song.key = "A" /\ song.mode = "minor" /\ song.tempo = 70
                 /\ Energy(song) = 30 /\ song.energy_curve # <<>>
                 /\ arc.points # <<>>) =>
                 \A s \in CMajor :
                    (s.tempo = 120 /\ s.energy_curve # <<>> /\ Energy(s) = 50)
                    => /\ Less(arc.overall_valence, MapArc(s).overall_valence)
                       /\ Less(arc.overall_arousal, MapArc(s).overall_arousal)
           /\ (song.key = "D" /\ song.mode = "major" /\ song.tempo = 180
                 /\ Energy(song) = 80 /\ arc.points # <<>>) =>
                 10 * arc.overall_arousal.total
                    > 6 * One * arc.overall_arousal.count

\* the arc of (A, minor, 70, 0.3) over the longest duration is returned:
\* valence 0 and arousal -0.56 at every point, and the function of the
\* arguments gives the arc the loop built
ArousalMonotoneValenceOrderedWitness ==
    /\ emPc = "done"
    /\ song = [key |-> "A", mode |-> "minor", tempo |-> 70,
               energy_curve |-> [k \in 1..MaxSeconds |-> 30],
               sections |-> <<>>, duration |-> 2 * MaxSeconds,
               chords |-> <<>>]
    /\ arc = MapArc(song)
    /\ arc.overall_valence.total = 0
    /\ arc.overall_arousal.total = -(MaxSeconds * 560 * Milli)

(***************************************************************************)
(* Properties of the beat grid                                             *)
(***************************************************************************)
\* C19 (as stated): the division by the tempo raises nothing:
\* refine_to_grid never ends in a ZeroDivisionError, also for a tempo of 0.
NoDivisionRaises ==
    /\ gridPc # "error"
    /\ gridErr = ""

(***************************************************************************)
(* Properties of short tracks and of climax points                         *)
(***************************************************************************)
\* C12 (as stated): for an energy curve of zero length, and for a track of
\* fewer than 80 frames, detect raises no error and returns exactly one
\* section, from 0 to the duration, and no climax point.
DegenerateInputOneSection ==
    (track.energy_curve = <<>> \/ track.n < 80) =>
       /\ sdPc # "error"
       /\ sdPc = "done" =>
             /\ Len(sections) = 1
             /\ sections[1].start_time = 0
             /\ sections[1].end_time = track.duration
             /\ climaxes = <<>>

\* C13: at most one climax point returned by _detect_climaxes has type
\* "final".  The points are in ascending time order, and a point is the
\* final one exactly when it is the earliest one with time > 0.7 * duration
\* and smoothed intensity > 0.8 * max(smoothed); every other point, also a
\* later one that satisfies both conditions, has the label of its section:
\* "drop", "emotional" or "energy".
OneFinalClimax ==
    sdPc = "done" =>
       \A smoothed \in {Smoothed(track.energy_curve)} :
       \A top \in {x \in SeqToSet(smoothed) :
                      \A y \in SeqToSet(smoothed) : y <= x} :
       LET Late(k) ==
              /\ 10 * climaxes[k].time > 7 * track.duration
              /\ 10 * smoothed[FrameIndex(climaxes[k].time) + 1] > 8 * top
       IN  /\ Cardinality({k \in 1..Len(climaxes) :
                              climaxes[k].type = "final"}) <= 1
           /\ \A j, k \in 1..Len(climaxes) :
                 j < k => climaxes[j].time < climaxes[k].time
           /\ \A k \in 1..Len(climaxes) :
                 IF Late(k) /\ \A j \in 1..(k - 1) : ~Late(j)
                 THEN climaxes[k].type = "final"
                 ELSE /\ climaxes[k].type \in {"drop", "emotional", "energy"}
                      /\ climaxes[k].type =
                            ContextLabel(climaxes[k].time, sections)

\* two peaks after 0.7 * duration are both above 0.8 * max(smoothed): the
\* first is the final climax, the second has the label of its section
OneFinalClimaxWitness ==
    /\ sdPc = "done"
    /\ Len(climaxes) = 3
    /\ climaxes[2].type = "final"
    /\ climaxes[3].type # "final"
    /\ 10 * climaxes[3].time > 7 * track.duration
    /\ \A smoothed \in {Smoothed(track.energy_curve)} :
          \A x \in SeqToSet(smoothed) : 10 * climaxes[3].intensity > 8 * x

\* C20: for a track of fewer than 80 frames the scan loop of
\* _detect_boundaries emits nothing, whatever the novelty values and the
\* beats: the boundaries returned are 0.0 and the duration and nothing
\* else, and at most one section is produced.
ShortTrackSentinelsOnly ==
    track.n < 80 =>
       /\ sdPc = "scan" => boundaries = <<0>>
       /\ sdPc \in {"classify", "climaxes", "done", "error"} =>
             /\ SeqToSet(boundaries) = {0, track.duration}
             /\ Len(boundaries) <= 2
       /\ Len(sections) <= 1

\* a track of 41 frames with beats: the boundaries are 0.0 and the
\* duration, and the one section spans them
ShortTrackSentinelsOnlyWitness ==
    /\ sdPc = "done"
    /\ track.n = 41
    /\ track.beats # <<>>
    /\ boundaries = <<0, track.duration>>
    /\ Len(sections) = 1

MinimumSegmentAfterSnap ==
    sdPc = "scan" =>
       /\ \A k \in 2..Len(boundaries) :
             boundaries[k] >= FrameTime(min_segment)
       /\ \A k \in 2..(Len(boundaries) - 1) :
             boundaries[k + 1] - boundaries[k] >= FrameTime(min_segment)

FirstMatchingRule ==
    (segPc = "done" /\ segArgs.duration > 0) =>
       LET a == segArgs
           rules ==
              << [when |-> 10 * a.start < a.duration /\ a.energy < 40,
                  label |-> "intro"],
                 [when |-> 100 * a.start > 85 * a.duration /\ a.energy < 50,
                  label |-> "outro"],
                 [when |-> a.energy > 80,
                  label |-> IF a.tempo > 130 /\ a.energy_var > 500
                            THEN "drop" ELSE "chorus"],
                 [when |-> a.energy > 60,
                  label |-> IF a.energy_var > 1000
                            THEN "buildup" ELSE "chorus"],
                 [when |-> a.energy > 40,
                  label |-> IF a.length > 400 THEN "verse" ELSE "pre_chorus"],
                 [when |-> a.energy > 20,
                  label |-> IF a.energy_var < 200
                            THEN "breakdown" ELSE "verse"],
                 [when |-> TRUE,
                  label |-> IF 10 * a.start > 4 * a.duration
                               /\ 10 * a.start < 7 * a.duration
                            THEN "bridge" ELSE "verse"] >>
           first == CHOOSE k \in 1..7 :
                       rules[k].when /\ \A j \in 1..(k - 1) : ~rules[j].when
       IN  /\ segType = rules[first].label
           /\ segType \in {"intro", "outro", "drop", "chorus", "buildup",
                           "verse", "pre_chorus", "breakdown", "bridge"}

\* a segment at position 0.9 with energy 0.45 on a track of 50 seconds:
\* rules (2) and (5) both match, and the label is that of rule (2)
FirstMatchingRuleWitness ==
    /\ segPc = "done"
    /\ segArgs.duration = 1000
    /\ segArgs.start = 860
    /\ segArgs.energy = 45
    /\ segType = "outro"

\* C27 (as stated): on every beat extraction path the time signature is
\* (4, 4) and the downbeats are exactly the beats at indices 0, 4, 8, ... of
\* the beat list, whatever its length.
DownbeatsEveryFourthBeat ==
    beatPc = "done" =>
       /\ beatInfo.time_signature = <<4, 4>>
       /\ Len(beatInfo.downbeats) = (Len(beatInfo.beats) + 3) \div 4
       /\ \A k \in 1..Len(beatInfo.downbeats) :
             beatInfo.downbeats[k] = beatInfo.beats[4 * (k - 1) + 1]

\* C25: in the points map smooths and returns, the first point is the raw
\* first point; for every later point valence = 0.3 * (the smoothed valence
\* of the point before) + 0.7 * (its raw valence), and likewise arousal;
\* every point has the emotion _map_to_emotion gives for its own smoothed
\* valence and arousal, the intensity (|valence| + |arousal|) / 2 of them,
\* and the time of the raw point; the arc returned holds these points.
SmoothedFromPrevious ==
    emPc \in {"summary", "done"} =>
       /\ Len(points) = song.duration \div 2
       /\ emPc = "done" => arc.points = points
       /\ \A i \in 1..Len(points) :
             \A raw \in {PointAt(song, i - 1)} :
                /\ i = 1 => points[i] = raw
                /\ i > 1 =>
                      /\ 10 * points[i].valence =
                            3 * points[i - 1].valence + 7 * raw.valence
                      /\ 10 * points[i].arousal =
                            3 * points[i - 1].arousal + 7 * raw.arousal
                /\ points[i].emotion =
                      MapToEmotion(points[i].valence, points[i].arousal)
                /\ 2 * points[i].intensity =
                      Abs(points[i].valence) + Abs(points[i].arousal)
                /\ points[i].time = raw.time

\* an arc of at least three points in which smoothing changed the valence
\* of the second and of the third point, and the emotion of a point
SmoothedFromPreviousWitness ==
    /\ emPc = "done"
    /\ Len(arc.points) >= 3
    /\ arc.points[2].valence # PointAt(song, 1).valence
    /\ arc.points[3].valence # PointAt(song, 2).valence
    /\ PointAt(song, 1).valence # PointAt(song, 0).valence
    /\ \E i \in 1..Len(arc.points) :
          arc.points[i].emotion # PointAt(song, i - 1).emotion

ClimaxPointsInsideTrack ==
    (sdPc = "done"
        /\ \A i \in 1..Len(track.energy_curve) :
              0 <= track.energy_curve[i] /\ track.energy_curve[i] <= 100) =>
       /\ \A k \in 1..Len(climaxes) :
             /\ 0 <= climaxes[k].intensity
             /\ climaxes[k].intensity <= 200
             /\ climaxes[k].type \in {"energy", "drop", "emotional", "final"}
             /\ 0 <= climaxes[k].time
             /\ climaxes[k].time < track.duration
             /\ FrameIndex(climaxes[k].time) < Len(track.energy_curve)
       /\ \A k \in 1..(Len(climaxes) - 1) :
             climaxes[k].time < climaxes[k + 1].time
       /\ Len(track.energy_curve) < 20 => climaxes = <<>>

\* three climax points of a curve with values in [0, 1]: the last one lies
\* in the last second of the track, and one is of type "final"
ClimaxPointsInsideTrackWitness ==
    /\ sdPc = "done"
    /\ \A i \in 1..Len(track.energy_curve) : track.energy_curve[i] <= 100
    /\ Len(climaxes) = 3
    /\ FrameIndex(climaxes[3].time) + sample_rate >= Len(track.energy_curve)
    /\ \E k \in 1..3 : climaxes[k].type = "final"

\* C29: the scan loop of _detect_boundaries terminates, whatever the
\* novelty values and the beats: every iteration leaves the scan index i
\* larger than it was, also one that snaps to a beat before i; the number of
\* boundaries emitted never exceeds the number of frames; and a scan that
\* has started reaches the end of the loop.
ScanLoopTerminates ==
    /\ [][(sdPc = "scan" /\ sdPc' = "scan") => scanI' > scanI]_vars
    /\ [](sdPc = "scan" => Len(boundaries) - 1 <= track.n)
    /\ (sdPc = "scan") ~> (sdPc = "classify")

\* the scan has ended after two boundaries that were each snapped to a beat
\* nine frames before the scan index
ScanLoopTerminatesWitness ==
    /\ sdPc = "classify"
    /\ track.n = NumFrames(MaxDuration)
    /\ scanI = 2 * (min_segment - 9) + min_segment
    /\ Len(boundaries) = 4

\* C30 (as stated, for a tempo other than 0): refine_to_grid terminates and
\* returns a strictly ascending list of grid times, all smaller than the
\* duration, whose first element is the median of the beat offsets modulo
\* 60 / tempo and whose consecutive elements differ by 60 / tempo; every
\* iteration of its loop leaves t larger than the grid time it appended;
\* for an empty beat list the list returned is empty.
GridAscendingFromMedian ==
    gridArgs.tempo # 0 =>
       /\ gridPc \in {"loop", "done"} =>
             /\ \A k \in 1..Len(grid_beats) :
                   grid_beats[k] < gridArgs.duration
             /\ \A k \in 1..(Len(grid_beats) - 1) :
                   /\ grid_beats[k] < grid_beats[k + 1]
                   /\ grid_beats[k + 1] - grid_beats[k] =
                         BeatInterval(gridArgs.tempo)
             /\ grid_beats # <<>> =>
                   grid_beats[1] =
                      Median([k \in 1..Len(gridArgs.beats) |->
                                PyMod(gridArgs.beats[k],
                                      BeatInterval(gridArgs.tempo))])
       /\ (gridPc = "loop" /\ grid_beats # <<>>) =>
             gridT > grid_beats[Len(grid_beats)]
       /\ (gridPc = "done" /\ gridArgs.beats = <<>>) => grid_beats = <<>>

====
